---- MODULE Spec2Model ----
(***************************************************************************)
(* Numerology / compatibility / kundli services of the numerology app.      *)
(*                                                                          *)
(* The numerology functions of server/services/numerology.ts are pure; they *)
(* are modelled as operators and exercised by a caller that invokes one     *)
(* exported function at a time (op, args, ret hold the call, its arguments  *)
(* and its return value).  Strings are sequences of one-character strings.  *)
(* Fractions of calculateAdvancedCompatibility are exact rationals carried  *)
(* as integers in units of 1/7200 (the least common denominator of the      *)
(* weights, /8, /9 and the bonuses).                                        *)
(*                                                                          *)
(* generateKundli of server/services/kundli-generator.ts is asynchronous;   *)
(* it is modelled step by step, one action for each function it calls.      *)
(*                                                                          *)
(* The stateful parts of the server (the rate limiters, the LLM request     *)
(* counter, the chatSessions and kundliCharts tables) are modelled with the *)
(* state they keep and one action for each stretch of a handler between two *)
(* awaits; requests of several clients interleave at those points.          *)
(***************************************************************************)
EXTENDS Integers, Sequences, FiniteSets, TLC

\* the caller of the pure functions: the call, its arguments, its value
VARIABLES op, args, ret

\* one activation of generateKundli: the request, the position in the
\* function body, its locals, the ephemeris functions called so far, the
\* error thrown and the value the promise resolves with
VARIABLES request, pc, natalChart, vargaCharts, dashaData, hasVedicChart,
          confidence, yogas, aiEnhancedReading, savedChart, error, calls,
          result

callerVars == <<op, args, ret>>

kundliVars ==
  <<request, pc, natalChart, vargaCharts, dashaData, hasVedicChart,
    confidence, yogas, aiEnhancedReading, savedChart, error, calls, result>>

\* one activation of reduceToSingleDigit executed statement by statement:
\* the current value of its parameter num, its parameter keepMasterNumbers
\* and the position in the function body
VARIABLES loopNum, loopKeep, loopPc

loopVars == <<loopNum, loopKeep, loopPc>>

\* the server clock (Date.now(), in units of 30 minutes)
VARIABLES now

\* POST /api/vedic/compute-chart: the hit counters chartLimiter keeps for each
\* client address and the responses sent so far
VARIABLES chartHits, chartResponses

chartVars == <<chartHits, chartResponses>>

\* generateKundliInsight: the request counter kept for each user, the calls
\* made so far and the requests sent to the Groq API
VARIABLES userRequestCounts, insightCalls, groqRequests

insightVars == <<userRequestCounts, insightCalls, groqRequests>>

\* the chat service: the rows of the chatSessions table, the number of rows
\* inserted so far and the sendChatMessage calls made so far with their
\* locals
VARIABLES chatSessions, chatSessionSeq, chatCalls

chatVars == <<chatSessions, chatSessionSeq, chatCalls>>

\* the rows of the kundliCharts table
VARIABLES kundliCharts

\* the rateLimit middleware of middleware/auth.ts: the arguments it was
\* created with, its requests map and what it did with each request so far
VARIABLES rateLimitArgs, requests, rateLimited

limiterVars == <<rateLimitArgs, requests, rateLimited>>

serverVars ==
  <<loopVars, now, chartVars, insightVars, chatVars, kundliCharts, limiterVars>>

\* what the actions of one part of the server leave alone
exceptLoop == <<now, chartVars, insightVars, chatVars, kundliCharts, limiterVars>>
exceptClock == <<loopVars, chartVars, insightVars, chatVars, kundliCharts, limiterVars>>
exceptChart == <<loopVars, insightVars, chatVars, kundliCharts, limiterVars>>
exceptInsight == <<loopVars, chartVars, chatVars, kundliCharts, limiterVars>>
exceptChat == <<loopVars, now, chartVars, insightVars, kundliCharts, limiterVars>>
exceptKundliCharts == <<loopVars, chartVars, insightVars, chatVars, limiterVars>>
exceptLimiter ==
  <<loopVars, chartVars, insightVars, chatVars, kundliCharts>>

vars == <<callerVars, kundliVars, serverVars>>

----------------------------------------------------------------------------
(* Bounds of the inputs                                                     *)

\* reduceToSingleDigit is called directly with 0..MaxNum
MaxNum == 2100
\* birth years range over 1988..MaxYear
MaxYear == 1990
\* names have at most MaxNameLen characters
MaxNameLen == 3

Years == 1988..MaxYear

IsLeapYear(y) == (y % 4 = 0 /\ y % 100 # 0) \/ y % 400 = 0

DaysInMonth(m, y) ==
  IF m = 2 THEN (IF IsLeapYear(y) THEN 29 ELSE 28)
  ELSE IF m \in {4, 6, 9, 11} THEN 30 ELSE 31

\* the valid calendar dates of the window
Dates ==
  {dt \in [day : 1..31, month : 1..12, year : Years] :
     dt.day <= DaysInMonth(dt.month, dt.year)}

\* characters a name is typed from: letters of both cases, blank, punctuation
NameChars == {"A", "E", "I", "K", "R", "D", "s", " ", "-"}

RECURSIVE SeqsUpTo(_, _)
SeqsUpTo(S, n) ==
  IF n = 0 THEN {<<>>}
  ELSE LET shorter == SeqsUpTo(S, n - 1)
       IN  shorter \cup {Append(s, c) : s \in shorter, c \in S}

Names == SeqsUpTo(NameChars, MaxNameLen)

----------------------------------------------------------------------------
(* server/services/numerology.ts                                            *)

MasterNumbers == {11, 22, 33}

LowerCase == <<"a","b","c","d","e","f","g","h","i","j","k","l","m",
               "n","o","p","q","r","s","t","u","v","w","x","y","z">>
UpperCase == <<"A","B","C","D","E","F","G","H","I","J","K","L","M",
               "N","O","P","Q","R","S","T","U","V","W","X","Y","Z">>

\* Pythagorean letter values
letterValues ==
  [A |-> 1, B |-> 2, C |-> 3, D |-> 4, E |-> 5, F |-> 6, G |-> 7, H |-> 8, I |-> 9,
   J |-> 1, K |-> 2, L |-> 3, M |-> 4, N |-> 5, O |-> 6, P |-> 7, Q |-> 8, R |-> 9,
   S |-> 1, T |-> 2, U |-> 3, V |-> 4, W |-> 5, X |-> 6, Y |-> 7, Z |-> 8]

vowels == {"A", "E", "I", "O", "U"}

\* String.prototype.toUpperCase on one character
ToUpperCase(c) ==
  IF \E i \in 1..26 : LowerCase[i] = c
  THEN UpperCase[CHOOSE i \in 1..26 : LowerCase[i] = c]
  ELSE c

IsUpperLetter(c) == \E i \in 1..26 : UpperCase[i] = c

\* name.toUpperCase().replace(/[^A-Z]/g, '')
CleanName(name) ==
  SelectSeq([i \in 1..Len(name) |-> ToUpperCase(name[i])], IsUpperLetter)

\* num.toString().split('') of a non-negative integer, most significant first
RECURSIVE Digits(_)
Digits(n) == IF n < 10 THEN <<n>> ELSE Append(Digits(n \div 10), n % 10)

RECURSIVE SumSeq(_)
SumSeq(s) == IF s = <<>> THEN 0 ELSE Head(s) + SumSeq(Tail(s))

\* variant of the loop body: the value is left as it is
DigitSumKeepsValue(n) == n

\* one pass of the loop body: the decimal digit sum
DigitSum(n) == SumSeq(Digits(n))

\* the while loop of reduceToSingleDigit
RECURSIVE ReduceLoop(_, _)
ReduceLoop(num, keepMasterNumbers) ==
  IF num > 9
  THEN LET s == DigitSum(num)
       IN  IF keepMasterNumbers /\ s \in MasterNumbers
           THEN s
           ELSE ReduceLoop(s, keepMasterNumbers)
  ELSE num

\* variants of reduceToSingleDigit: master numbers never kept; "if" for "while"
ReduceNoMasterCheck(num, keepMasterNumbers) == ReduceLoop(num, FALSE)

ReduceOnePass(num, keepMasterNumbers) ==
  IF keepMasterNumbers /\ num \in MasterNumbers
  THEN num
  ELSE IF num > 9 THEN DigitSum(num) ELSE num

reduceToSingleDigit(num, keepMasterNumbers) ==
  IF keepMasterNumbers /\ num \in MasterNumbers
  THEN num
  ELSE ReduceLoop(num, keepMasterNumbers)

calculateNameNumber(name, vowelsOnly, consonantsOnly) ==
  LET cleanName == CleanName(name)
      Counted(letter) ==
        /\ ~(vowelsOnly /\ letter \notin vowels)
        /\ ~(consonantsOnly /\ letter \in vowels)
      counted == SelectSeq(cleanName, Counted)
  IN  SumSeq([i \in 1..Len(counted) |-> letterValues[counted[i]]])

LifePathNoFinalReduce(day, month, year) ==
  reduceToSingleDigit(day, TRUE) + reduceToSingleDigit(month, TRUE)
    + reduceToSingleDigit(year, TRUE)

calculateLifePathNumber(day, month, year) ==
  LET reducedDay == reduceToSingleDigit(day, TRUE)
      reducedMonth == reduceToSingleDigit(month, TRUE)
      reducedYear == reduceToSingleDigit(year, TRUE)
      sum == reducedDay + reducedMonth + reducedYear
  IN  reduceToSingleDigit(sum, TRUE)

IsWhitespace(c) == c = " "

\* fullName.trim().split(/\s+/): the maximal runs of non-blank characters;
\* a name without any such run splits into the single empty string
RECURSIVE SplitRuns(_, _, _)
SplitRuns(s, cur, acc) ==
  IF s = <<>>
  THEN IF cur = <<>> THEN acc ELSE Append(acc, cur)
  ELSE IF IsWhitespace(Head(s))
       THEN SplitRuns(Tail(s), <<>>, IF cur = <<>> THEN acc ELSE Append(acc, cur))
       ELSE SplitRuns(Tail(s), Append(cur, Head(s)), acc)

TrimSplit(fullName) ==
  LET runs == SplitRuns(fullName, <<>>, <<>>)
  IN  IF runs = <<>> THEN << <<>> >> ELSE runs

calculateExpressionNumber(fullName) ==
  LET names == TrimSplit(fullName)
      totalSum ==
        SumSeq([i \in 1..Len(names) |->
                  reduceToSingleDigit(calculateNameNumber(names[i], FALSE, FALSE), TRUE)])
  IN  reduceToSingleDigit(totalSum, TRUE)

calculateSoulUrgeNumber(fullName) ==
  reduceToSingleDigit(calculateNameNumber(fullName, TRUE, FALSE), TRUE)

calculatePersonalityNumber(fullName) ==
  reduceToSingleDigit(calculateNameNumber(fullName, FALSE, TRUE), TRUE)

calculateBirthdayNumber(day) == reduceToSingleDigit(day, TRUE)

calculateMaturityNumber(lifePathNumber, expressionNumber) ==
  reduceToSingleDigit(lifePathNumber + expressionNumber, FALSE)

loShuPositions == << <<4, 9, 2>>, <<3, 5, 7>>, <<8, 1, 6>> >>

\* the digits array of generateLoShuGrid: the decimal digits of day, month
\* and year, then the driver and the conductor as whole numbers
LoShuDigitList(day, month, year) ==
  Digits(day) \o Digits(month) \o Digits(year)
    \o <<calculateBirthdayNumber(day)>>
    \o <<calculateLifePathNumber(day, month, year)>>

LoShuGridDateDigitsOnly(day, month, year) ==
  LET digits == Digits(day) \o Digits(month) \o Digits(year)
      digitCounts == [n \in 1..9 |-> Cardinality({i \in 1..Len(digits) : digits[i] = n})]
  IN  [row \in 1..3 |-> [col \in 1..3 |->
         LET number == loShuPositions[row][col]
         IN  IF digitCounts[number] > 0 THEN number ELSE 0]]

generateLoShuGrid(day, month, year) ==
  LET digits == LoShuDigitList(day, month, year)
      digitCounts == [n \in 1..9 |-> Cardinality({i \in 1..Len(digits) : digits[i] = n})]
  IN  [row \in 1..3 |-> [col \in 1..3 |->
         LET number == loShuPositions[row][col]
         IN  IF digitCounts[number] > 0 THEN number ELSE 0]]

calculatePinnacles(day, month, year) ==
  LET reducedDay == reduceToSingleDigit(day, TRUE)
      reducedMonth == reduceToSingleDigit(month, TRUE)
      reducedYear == reduceToSingleDigit(year, TRUE)
      first == reduceToSingleDigit(reducedMonth + reducedDay, TRUE)
      second == reduceToSingleDigit(reducedDay + reducedYear, TRUE)
      third == reduceToSingleDigit(first + second, TRUE)
      fourth == reduceToSingleDigit(reducedMonth + reducedYear, TRUE)
  IN  <<first, second, third, fourth>>

\* Math.abs
Abs(x) == IF x < 0 THEN -x ELSE x

\* the challenges with master numbers kept in the three reductions
ChallengesKeepMasters(day, month, year) ==
  LET reducedDay == reduceToSingleDigit(day, TRUE)
      reducedMonth == reduceToSingleDigit(month, TRUE)
      reducedYear == reduceToSingleDigit(year, TRUE)
      first == Abs(reducedMonth - reducedDay)
      second == Abs(reducedDay - reducedYear)
  IN  <<first, second, Abs(first - second), Abs(reducedMonth - reducedYear)>>

calculateChallenges(day, month, year) ==
  LET reducedDay == reduceToSingleDigit(day, FALSE)
      reducedMonth == reduceToSingleDigit(month, FALSE)
      reducedYear == reduceToSingleDigit(year, FALSE)
      first == Abs(reducedMonth - reducedDay)
      second == Abs(reducedDay - reducedYear)
      third == Abs(first - second)
      fourth == Abs(reducedMonth - reducedYear)
  IN  <<first, second, third, fourth>>

\* the scan taking a digit whose count is not below the maximum so far
RECURSIVE HiddenPassionScanLastMax(_, _, _, _)
HiddenPassionScanLastMax(digitCounts, digit, maxCount, hiddenPassion) ==
  IF digit > 9 THEN hiddenPassion
  ELSE IF digitCounts[digit] >= maxCount
       THEN HiddenPassionScanLastMax(digitCounts, digit + 1, digitCounts[digit], digit)
       ELSE HiddenPassionScanLastMax(digitCounts, digit + 1, maxCount, hiddenPassion)

\* the scan "for digit = 1..9: if count > maxCount then take it"
RECURSIVE HiddenPassionScan(_, _, _, _)
HiddenPassionScan(digitCounts, digit, maxCount, hiddenPassion) ==
  IF digit > 9 THEN hiddenPassion
  ELSE IF digitCounts[digit] > maxCount
       THEN HiddenPassionScan(digitCounts, digit + 1, digitCounts[digit], digit)
       ELSE HiddenPassionScan(digitCounts, digit + 1, maxCount, hiddenPassion)

\* the frequency of each letter value among the cleaned letters
LetterValueCounts(cleanName) ==
  [v \in 1..9 |->
     Cardinality({i \in 1..Len(cleanName) : letterValues[cleanName[i]] = v})]

getHiddenPassionNumber(name) ==
  HiddenPassionScan(LetterValueCounts(CleanName(name)), 1, 0, 1)

SeqToSet(s) == {s[i] : i \in 1..Len(s)}

\* digits.add for the date digits, the driver and the conductor in 1..9
LoShuDigitSet(dateDigits, driver, conductor) ==
  (SeqToSet(dateDigits) \cap (1..9)) \cup ({driver} \cap (1..9))
    \cup ({conductor} \cap (1..9))

getLoShuGridDigits(day, month, year) ==
  LoShuDigitSet(Digits(day) \o Digits(month) \o Digits(year),
                calculateBirthdayNumber(day),
                calculateLifePathNumber(day, month, year))

calculateNumerology(fullName, day, month, year) ==
  LET lifePathNumber == calculateLifePathNumber(day, month, year)
      expressionNumber == calculateExpressionNumber(fullName)
  IN  [lifePathNumber |-> lifePathNumber,
       expressionNumber |-> expressionNumber,
       soulUrgeNumber |-> calculateSoulUrgeNumber(fullName),
       personalityNumber |-> calculatePersonalityNumber(fullName),
       birthdayNumber |-> calculateBirthdayNumber(day),
       maturityNumber |-> calculateMaturityNumber(lifePathNumber, expressionNumber),
       loShuGrid |-> generateLoShuGrid(day, month, year),
       pinnacles |-> calculatePinnacles(day, month, year),
       challenges |-> calculateChallenges(day, month, year)]

(* calculateAdvancedCompatibility.  Every fraction is carried exactly, in   *)
(* units of 1/7200: 1 is 7200, x/8 is 900 x, the 0.1 bonus is 720, m/9 is   *)
(* 800 m, 0.05 is 360, 0.025 is 180 and 0.0125 is 90.                       *)

\* the difference taken with its sign
SimilarityNoAbs(a, b) == 7200 - 900 * (a - b)

\* 1 - Math.abs(a - b) / 8
Similarity(a, b) == 7200 - 900 * Abs(a - b)

\* no bonus for equal numbers
EqualBonusNever(a, b) == 0

\* a === b ? 0.1 : 0
EqualBonus(a, b) == IF a = b THEN 720 ELSE 0

scoreLp(person1, person2) == Similarity(person1.lifePathNumber, person2.lifePathNumber)

finalLpScore(person1, person2) ==
  scoreLp(person1, person2) + EqualBonus(person1.lifePathNumber, person2.lifePathNumber)

scoreExpr(person1, person2) ==
  Similarity(person1.expressionNumber, person2.expressionNumber)

finalExprScore(person1, person2) ==
  scoreExpr(person1, person2)
    + EqualBonus(person1.expressionNumber, person2.expressionNumber)

scoreSoul(person1, person2) == Similarity(person1.soulUrgeNumber, person2.soulUrgeNumber)

finalSoulScore(person1, person2) ==
  scoreSoul(person1, person2) + EqualBonus(person1.soulUrgeNumber, person2.soulUrgeNumber)

scorePerson(person1, person2) ==
  Similarity(person1.personalityNumber, person2.personalityNumber)

finalPersonScore(person1, person2) ==
  scorePerson(person1, person2)
    + EqualBonus(person1.personalityNumber, person2.personalityNumber)

scoreBday(person1, person2) == Similarity(person1.birthdayNumber, person2.birthdayNumber)

\* hidden1 === hidden2 ? 1 : (1 - Math.abs(hidden1 - hidden2) / 8)
HiddenSimilarity(hidden1, hidden2) ==
  IF hidden1 = hidden2 THEN 7200 ELSE Similarity(hidden1, hidden2)

scoreHidden(person1, person2) ==
  HiddenSimilarity(getHiddenPassionNumber(person1.name),
                   getHiddenPassionNumber(person2.name))

\* loShu1Array.filter(d => loShu2.has(d)).length
matchingDigits(loShu1, loShu2) == Cardinality({d \in loShu1 : d \in loShu2})

completionBonus(loShu1, loShu2) ==
  IF (\E d \in loShu1 : d \notin loShu2) /\ (\E d \in loShu2 : d \notin loShu1)
  THEN 360 ELSE 0

scoreLo(loShu1, loShu2) ==
  800 * matchingDigits(loShu1, loShu2) + completionBonus(loShu1, loShu2)

pinnacleBonus(person1, person2) ==
  180 * Cardinality({i \in 1..4 : person1.pinnacles[i] = person2.pinnacles[i]})

challengePenalty(person1, person2) ==
  90 * Cardinality({i \in 1..4 : person1.challenges[i] = person2.challenges[i]})

Min2(a, b) == IF a < b THEN a ELSE b
Max2(a, b) == IF a > b THEN a ELSE b

NoClamp(x) == x

\* Math.max(0, Math.min(1, x))
Clamp(x) == Max2(0, Min2(7200, x))

\* Math.round(x * 100) of a fraction x given in units of 1/7200:
\* the nearest integer, a tie going up
RoundPercent(x) == (x * 100 + 3600) \div 7200

CategorizeStrict(percentage) ==
  IF percentage > 80 THEN "Excellent Match"
  ELSE IF percentage > 65 THEN "Good Match"
  ELSE IF percentage > 50 THEN "Average Match"
  ELSE "Challenging"

\* the label text before its emoji
Categorize(percentage) ==
  IF percentage >= 80 THEN "Excellent Match"
  ELSE IF percentage >= 65 THEN "Good Match"
  ELSE IF percentage >= 50 THEN "Average Match"
  ELSE "Challenging"

\* steps 9 and on: the final score, its category and the returned record
CompatibilityResult(lp, expr, soul, person, bday, hidden, lo, matching, pinnacle, challenge) ==
  LET \* every product of the weighted sum is exact in units of 1/7200
      final ==
        Clamp((25 * lp) \div 100 + (15 * expr) \div 100 + (15 * soul) \div 100
                + (15 * person) \div 100 + (10 * bday) \div 100
                + (10 * hidden) \div 100 + (5 * lo) \div 100
                + pinnacle - challenge)
      percentage == RoundPercent(final)
  IN  [score |-> percentage,
       category |-> Categorize(percentage),
       summary |->
         IF lp > 5760 THEN "life path"
         ELSE IF soul > 5760 THEN "emotional"
         ELSE "personality",
       details |->
         [lifePath |-> RoundPercent(lp),
          expression |-> RoundPercent(expr),
          soulUrge |-> RoundPercent(soul),
          personality |-> RoundPercent(person),
          birthday |-> RoundPercent(bday),
          hiddenPassion |-> RoundPercent(hidden),
          loShu |-> <<RoundPercent(lo), matching > 5>>,
          pinnacles |-> <<pinnacle > 360, challenge > 180>>]]

\* step 7 on the two digit sets
LoShuCompatibility(loShu1, loShu2) ==
  [score |-> scoreLo(loShu1, loShu2), matching |-> matchingDigits(loShu1, loShu2)]

calculateAdvancedCompatibility(person1, person2) ==
  LET lo == LoShuCompatibility(
              getLoShuGridDigits(person1.day, person1.month, person1.year),
              getLoShuGridDigits(person2.day, person2.month, person2.year))
  IN  CompatibilityResult(
        finalLpScore(person1, person2),
        finalExprScore(person1, person2),
        finalSoulScore(person1, person2),
        finalPersonScore(person1, person2),
        scoreBday(person1, person2),
        scoreHidden(person1, person2),
        lo.score, lo.matching,
        pinnacleBonus(person1, person2),
        challengePenalty(person1, person2))

\* the route's argument: { ...partnerCalc, name, day, month, year }
Person(name, day, month, year) ==
  LET calc == calculateNumerology(name, day, month, year)
  IN  [lifePathNumber |-> calc.lifePathNumber,
       expressionNumber |-> calc.expressionNumber,
       soulUrgeNumber |-> calc.soulUrgeNumber,
       personalityNumber |-> calc.personalityNumber,
       birthdayNumber |-> calc.birthdayNumber,
       maturityNumber |-> calc.maturityNumber,
       loShuGrid |-> calc.loShuGrid,
       pinnacles |-> calc.pinnacles,
       challenges |-> calc.challenges,
       name |-> name, day |-> day, month |-> month, year |-> year]

----------------------------------------------------------------------------
(* server/services/ephemeris.ts                                             *)
(*                                                                          *)
(* Angles are fixed-point integers in micro-degrees (1 degree = 1000000),   *)
(* times are whole minutes: the birth strings carry no seconds.  A product  *)
(* too large for a machine integer is formed by MulDiv, which is exact.     *)
(* NaN is an integer that no computation of the module produces.           *)

NaN == -2147483647

Deg == 1000 * 1000
Turn == 360 * Deg

\* floor(a * b / d) for a, b >= 0 and d > 0, as turns * Turn + res with
\* 0 <= res < Turn, and rem = (a * b) % d; by halving b
RECURSIVE MulDiv(_, _, _)
MulDiv(a, b, d) ==
  IF b = 0 THEN [turns |-> 0, res |-> 0, rem |-> 0]
  ELSE LET h == MulDiv(a, b \div 2, d)
           inc == IF b % 2 = 1 THEN a ELSE 0
           r == 2 * h.rem + (inc % d)
           q == 2 * h.res + (inc \div d) + (r \div d)
       IN  [turns |-> 2 * h.turns + (q \div Turn), res |-> q % Turn, rem |-> r % d]

\* an angle of any size as [turns, res]: turns * Turn + res, 0 <= res < Turn
Angle(turns, res) == [turns |-> turns + (res \div Turn), res |-> res % Turn]

AnglePlus(x, y) == Angle(x.turns + y.turns, x.res + y.res)

AngleNeg(x) ==
  IF x.res = 0 THEN [turns |-> -x.turns, res |-> 0]
  ELSE [turns |-> -x.turns - 1, res |-> Turn - x.res]

AngleSigned(negative, x) == IF negative THEN AngleNeg(x) ELSE x

\* x % 360 of JavaScript on an angle: the remainder has the sign of x
AngleRem360(x) ==
  IF x.turns >= 0 THEN x.res
  ELSE IF x.res = 0 THEN 0 ELSE x.res - Turn

\* a % b of JavaScript on integers, b > 0: truncated division
JsRem(a, b) == IF a >= 0 THEN a % b ELSE -((-a) % b)

DigitChars == <<"0", "1", "2", "3", "4", "5", "6", "7", "8", "9">>

IsDigit(c) == \E i \in 1..10 : DigitChars[i] = c

DigitValue(c) == (CHOOSE i \in 1..10 : DigitChars[i] = c) - 1

\* the number written by a sequence of digit characters
RECURSIVE ParseDigits(_)
ParseDigits(s) ==
  IF s = <<>> THEN 0
  ELSE 10 * ParseDigits(SubSeq(s, 1, Len(s) - 1)) + DigitValue(s[Len(s)])

\* /^\d{4}-\d{2}-\d{2}$/
MatchesDateRegex(dob) ==
  /\ Len(dob) = 10
  /\ \A i \in {1, 2, 3, 4, 6, 7, 9, 10} : IsDigit(dob[i])
  /\ dob[5] = "-" /\ dob[8] = "-"

\* /^\d{2}:\d{2}$/
MatchesTimeRegex(tob) ==
  /\ Len(tob) = 5
  /\ \A i \in {1, 2, 4, 5} : IsDigit(tob[i])
  /\ tob[3] = ":"

\* latitude and longitude in whole degrees; tob is '' when the request has
\* no time of birth
validateBirthData(lat, lon, dob, tob) ==
  /\ ~(lat < -90 \/ lat > 90 \/ lon < -180 \/ lon > 180)
  /\ MatchesDateRegex(dob)
  /\ ~(tob # <<>> /\ ~MatchesTimeRegex(tob))

\* timezone.includes('+') || timezone.includes('-')
HasOffset(timezone) == \E i \in 1..Len(timezone) : timezone[i] \in {"+", "-"}

\* +HH:MM or -HH:MM, the offsets Date.parse accepts after the seconds
IsIsoOffset(z) ==
  /\ Len(z) = 6 /\ z[1] \in {"+", "-"} /\ z[4] = ":"
  /\ \A i \in {2, 3, 5, 6} : IsDigit(z[i])
  /\ ParseDigits(SubSeq(z, 2, 3)) <= 23 /\ ParseDigits(SubSeq(z, 5, 6)) <= 59

OffsetMinutes(z) ==
  (IF z[1] = "-" THEN -1 ELSE 1)
    * (60 * ParseDigits(SubSeq(z, 2, 3)) + ParseDigits(SubSeq(z, 5, 6)))

\* the fields of an Invalid Date
InvalidDate ==
  [year |-> NaN, month |-> NaN, day |-> NaN, hours |-> NaN, minutes |-> NaN,
   shift |-> NaN]

\* new Date(`${dob}T${tob}:00${offset}`) for strings that passed
\* validateBirthData: the local calendar fields getFullYear() .. getMinutes()
\* return, or NaN for an Invalid Date.  Without an offset the string is local
\* time and the fields are the ones written; with an offset they are the
\* fields of that instant on a host whose zone is UTC.  shift is the number
\* of minutes to subtract from the written time.  A day up to 31 is accepted in every
\* month and counts on into the next one.
ParseBirthDateTime(dob, tob, timezone) ==
  LET year == ParseDigits(SubSeq(dob, 1, 4))
      month == ParseDigits(SubSeq(dob, 6, 7))
      day == ParseDigits(SubSeq(dob, 9, 10))
      hours == ParseDigits(SubSeq(tob, 1, 2))
      minutes == ParseDigits(SubSeq(tob, 4, 5))
      fieldsOk ==
        /\ month \in 1..12 /\ day \in 1..31
        /\ hours <= 23 /\ minutes <= 59
  IN  IF \/ ~(MatchesDateRegex(dob) /\ MatchesTimeRegex(tob))
         \/ ~fieldsOk
         \/ (HasOffset(timezone) /\ ~IsIsoOffset(timezone))
      THEN InvalidDate
      ELSE [year |-> year, month |-> month, day |-> day,
            hours |-> hours, minutes |-> minutes,
            shift |-> IF HasOffset(timezone) THEN OffsetMinutes(timezone) ELSE 0]

\* toJulianDay(date) - 2451545.0 in minutes: the day number of the formula
\* is an integer and the time of day adds (hours - 12) / 24 + minutes / 1440
MinutesSinceJ2000(date) ==
  LET a == (14 - date.month) \div 12
      y == date.year + 4800 - a
      m == date.month + 12 * a - 3
      dayNumber ==
        date.day + ((153 * m + 2) \div 5) + 365 * y
          + (y \div 4) - (y \div 100) + (y \div 400) - 32045
  IN  (dayNumber - 2451545) * 1440 + (date.hours - 12) * 60 + date.minutes
        - date.shift

\* the entries of PLANETS, in the order Object.entries lists them
PlanetNames ==
  <<"sun", "moon", "mercury", "venus", "mars", "jupiter", "saturn", "rahu", "ketu">>

\* the cases of calculatePlanetLongitude: c0 + c1 * T + c2 * T * T with c0 in
\* micro-degrees, c1 split into its whole degrees and its five decimals, c2 in
\* units of 0.00000001 degree
PlanetFormula ==
  [sun     |-> [c0 |-> 280466460, c1 |-> 36000,  c1e5 |-> 76983, c2e8 |-> 30320],
   moon    |-> [c0 |-> 218316500, c1 |-> 481267, c1e5 |-> 88130, c2e8 |-> -157860],
   mercury |-> [c0 |-> 252250840, c1 |-> 149472, c1e5 |-> 67411, c2e8 |-> -536],
   venus   |-> [c0 |-> 181979730, c1 |-> 58517,  c1e5 |-> 81539, c2e8 |-> 165],
   mars    |-> [c0 |-> 355432990, c1 |-> 19140,  c1e5 |-> 30268, c2e8 |-> 261],
   jupiter |-> [c0 |-> 34351480,  c1 |-> 3034,   c1e5 |-> 90567, c2e8 |-> -8501],
   saturn  |-> [c0 |-> 50075710,  c1 |-> 1222,   c1e5 |-> 11494, c2e8 |-> 21]]

\* |c1 * T| for T = minutes / 52596000 centuries, minutes >= 0:
\* c1 / 52.596 = c1 * 250 / 13149 micro-degrees a minute for the whole
\* degrees, c1e5 / 5259600 for the decimals
LinearTerm(c1, c1e5, minutes) ==
  AnglePlus(MulDiv(c1 * 250, minutes, 13149), MulDiv(c1e5, minutes, 5259600))

\* c2 * T * T in micro-degrees, T taken to three decimals
QuadraticTerm(c2e8, minutes) ==
  LET t1000 == minutes \div 52596
  IN  (c2e8 * ((t1000 * t1000) \div 100)) \div 1000000

\* the value before "% 360", as an angle of any size
PlanetPolynomial(f, minutes) ==
  LET absMinutes == Abs(minutes)
      linear == AngleSigned(minutes < 0, LinearTerm(f.c1, f.c1e5, absMinutes))
  IN  AnglePlus(Angle(0, f.c0 + QuadraticTerm(f.c2e8, absMinutes)), linear)

\* julianDay is given as minutes since J2000.0; the result is in
\* micro-degrees and has the sign of the polynomial
calculatePlanetLongitude(planet, minutes) ==
  IF planet \in DOMAIN PlanetFormula
  THEN AngleRem360(PlanetPolynomial(PlanetFormula[planet], minutes))
  ELSE 0

\* 23.85 + 0.396 * T
calculateAyanamsa(minutes) ==
  LET drift == MulDiv(396, Abs(minutes), 52596).res
  IN  23850000 + (IF minutes < 0 THEN -drift ELSE drift)

NAKSHATRAS ==
  <<"Ashwini", "Bharani", "Krittika", "Rohini", "Mrigashira", "Ardra",
    "Punarvasu", "Pushya", "Ashlesha", "Magha", "Purva Phalguni", "Uttara Phalguni",
    "Hasta", "Chitra", "Swati", "Vishakha", "Anuradha", "Jyeshtha",
    "Mula", "Purva Ashadha", "Uttara Ashadha", "Shravana", "Dhanishtha", "Shatabhisha",
    "Purva Bhadrapada", "Uttara Bhadrapada", "Revati">>

\* moonLongitude in micro-degrees, or NaN; 13.333333 degrees a nakshatra
getNakshatraPada(moonLongitude) ==
  IF moonLongitude = NaN THEN [nakshatra |-> "Unknown", pada |-> NaN]
  ELSE LET nakshatraIndex == moonLongitude \div 13333333
           pada == ((4 * JsRem(moonLongitude, 13333333)) \div 13333333) + 1
       IN  [nakshatra |-> IF nakshatraIndex \in 0..26
                          THEN NAKSHATRAS[nakshatraIndex + 1] ELSE "Unknown",
            pada |-> pada]

\* one entry of planets for a sidereal longitude (or NaN)
PlanetPosition(name, siderealLongitude) ==
  LET nakshatraPada == getNakshatraPada(siderealLongitude)
  IN  [longitude |-> siderealLongitude,
       sign |-> IF siderealLongitude = NaN THEN NaN
                ELSE siderealLongitude \div (30 * Deg),
       degree |-> IF siderealLongitude = NaN THEN NaN
                  ELSE JsRem(siderealLongitude, 30 * Deg),
       nakshatra |-> IF name = "moon" THEN nakshatraPada.nakshatra ELSE "",
       pada |-> IF name = "moon" THEN nakshatraPada.pada ELSE 1,
       retrograde |-> FALSE]

\* (longitude - ayanamsa + 360) % 360
Sidereal(longitude, ayanamsa) == JsRem(longitude - ayanamsa + Turn, Turn)

\* Ketu half a turn after Rahu without the reduction modulo 360
KetuNoWrap(rahu) ==
  [rahu EXCEPT !.longitude = rahu.longitude + 180 * Deg,
               !.sign = JsRem(rahu.sign + 6, 12)]

\* planets.ketu = { ...planets.rahu, longitude: .., sign: .. }
KetuFrom(rahu) ==
  [rahu EXCEPT
     !.longitude = IF rahu.longitude = NaN THEN NaN
                   ELSE JsRem(rahu.longitude + 180 * Deg, Turn),
     !.sign = IF rahu.sign = NaN THEN NaN ELSE JsRem(rahu.sign + 6, 12)]

\* (julianDay - 2451545.0) * 1.00273790935 + 280.46061837 as an angle:
\* 1 degree a day is 6250 / 9 micro-degrees a minute
SiderealTime(minutes) ==
  LET absMinutes == Abs(minutes)
      advance == AnglePlus(MulDiv(6250, absMinutes, 9),
                           MulDiv(273790935, absMinutes, 144000000))
  IN  AnglePlus(AngleSigned(minutes < 0, advance), Angle(0, 280460618))

\* the chart of an Invalid Date: every number is NaN
NaNChart ==
  LET planets == [p \in {PlanetNames[i] : i \in 1..9} |-> PlanetPosition(p, NaN)]
  IN  [ascendant |-> NaN,
       houses |-> [i \in 1..12 |-> NaN],
       planets |-> [planets EXCEPT !["ketu"] = KetuFrom(planets["rahu"])],
       ayanamsa |-> NaN, julianDay |-> NaN, siderealTime |-> NaN]

\* lon in whole degrees; no statement of the function throws for string
\* arguments, so its catch block is never entered
computeNatalChart(lat, lon, dob, tob, timezone) ==
  LET birthDateTime == ParseBirthDateTime(dob, tob, timezone)
      julianDay == MinutesSinceJ2000(birthDateTime)
      ayanamsa == calculateAyanamsa(julianDay)
      planets ==
        [p \in {PlanetNames[i] : i \in 1..9} |->
           PlanetPosition(p, Sidereal(calculatePlanetLongitude(p, julianDay), ayanamsa))]
      siderealTime == SiderealTime(julianDay)
      ascendantLongitude ==
        AngleRem360(AnglePlus(siderealTime, Angle(0, (lon * Deg) \div 15)))
      ascendant == Sidereal(ascendantLongitude, ayanamsa) \div (30 * Deg)
  IN  IF birthDateTime.year = NaN THEN NaNChart
      ELSE [ascendant |-> ascendant,
            houses |-> [i \in 1..12 |-> JsRem(ascendant + (i - 1), 12)],
            planets |-> [planets EXCEPT !["ketu"] = KetuFrom(planets["rahu"])],
            ayanamsa |-> ayanamsa,
            julianDay |-> julianDay,
            siderealTime |-> AngleRem360(siderealTime)]

\* (position.sign * parts + Math.floor((longitude % 30) / width)) % 12
VargaSign(position, parts, width) ==
  IF position.longitude = NaN THEN NaN
  ELSE JsRem(position.sign * parts + (JsRem(position.longitude, 30 * Deg) \div width), 12)

computeVargas(chart) ==
  [D9 |-> [p \in DOMAIN chart.planets |->
             VargaSign(chart.planets[p], 9, 3333333)],
   D10 |-> [p \in DOMAIN chart.planets |->
              VargaSign(chart.planets[p], 10, 3 * Deg)],
   D12 |-> [p \in DOMAIN chart.planets |->
              VargaSign(chart.planets[p], 12, 2500000)]]

dasaPeriods ==
  <<[planet |-> "Ketu", years |-> 7], [planet |-> "Venus", years |-> 20],
    [planet |-> "Sun", years |-> 6], [planet |-> "Moon", years |-> 10],
    [planet |-> "Mars", years |-> 7], [planet |-> "Rahu", years |-> 18],
    [planet |-> "Jupiter", years |-> 16], [planet |-> "Saturn", years |-> 19],
    [planet |-> "Mercury", years |-> 17]>>

\* the nakshatra index used as it is, without "% 9"
StartingDasaIndexNoMod(moonLongitude) ==
  IF moonLongitude = NaN THEN NaN ELSE moonLongitude \div 13333333

\* nakshatraIndex % 9, or NaN
StartingDasaIndex(moonLongitude) ==
  IF moonLongitude = NaN THEN NaN ELSE JsRem(moonLongitude \div 13333333, 9)

\* dasaPeriods[startingDasaIndex] is undefined, so that reading its .years
\* throws a TypeError
DasaThrows(moonLongitude) == StartingDasaIndex(moonLongitude) \notin 0..8

\* the value returned when nothing throws; dates are months from now
computeVimshottariDasa(moonLongitude) ==
  LET startingDasaIndex == StartingDasaIndex(moonLongitude)
      currentDasa == dasaPeriods[startingDasaIndex + 1]
      nextDasa == dasaPeriods[((startingDasaIndex + 1) % 9) + 1]
  IN  [currentMaha |-> [planet |-> currentDasa.planet,
                        startDate |-> -24,
                        endDate |-> -24 + 12 * currentDasa.years],
       currentSub |-> [planet |-> nextDasa.planet,
                       startDate |-> -6,
                       endDate |-> 12],
       sequence |-> dasaPeriods]

----------------------------------------------------------------------------
(* server/services/kundli-generator.ts                                     *)

\* null, and the {} returned in its place
null == [null |-> TRUE]
EmptyObject == <<>>

\* a longitude difference or a threshold compared with NaN is false
IsNumber(x) == x # NaN

\* Math.floor(longitude / 30)
HouseOf(longitude) == longitude \div (30 * Deg)

GajaKesari(planets) ==
  /\ IsNumber(planets.jupiter.longitude) /\ IsNumber(planets.venus.longitude)
  /\ Abs(HouseOf(planets.jupiter.longitude) - HouseOf(planets.venus.longitude)) <= 1

Budhaditya(planets) ==
  /\ IsNumber(planets.sun.longitude) /\ IsNumber(planets.mercury.longitude)
  /\ Abs(planets.sun.longitude - planets.mercury.longitude) <= 10 * Deg

ChandraMangal(planets) ==
  /\ IsNumber(planets.moon.longitude) /\ IsNumber(planets.mars.longitude)
  /\ Abs(planets.moon.longitude - planets.mars.longitude) <= 15 * Deg

\* the names of the yogas pushed, in order
detectYogas(chart) ==
  IF chart = null THEN <<>>
  ELSE (IF GajaKesari(chart.planets) THEN <<"Gaja Kesari Yoga">> ELSE <<>>)
         \o (IF Budhaditya(chart.planets) THEN <<"Budhaditya Yoga">> ELSE <<>>)
         \o (IF ChandraMangal(chart.planets) THEN <<"Chandra Mangal Yoga">> ELSE <<>>)

\* every string taken for truthy
TruthyAlways(str) == TRUE

\* a string is truthy unless it is empty; an absent timeOfBirth and '' are
\* both the empty sequence
Truthy(str) == str # <<>>

\* x || {}
OrEmptyObject(x) == IF x = null THEN EmptyObject ELSE x

\* the birth data of the requests
KundliLatitudes == {28, 91}
KundliLongitudes == {77, -181}
KundliDates ==
  { <<"1", "9", "7", "8", "-", "0", "5", "-", "1", "2">>,
    <<"1", "9", "7", "8", "-", "0", "5", "-", "0", "4">>,
    <<"2", "0", "1", "0", "-", "0", "3", "-", "2", "1">>,
    <<"1", "9", "7", "8", "-", "1", "3", "-", "4", "5">>,
    <<"1", "2", "/", "0", "5", "/", "1", "9", "7", "8">> }
KundliTimes ==
  { <<>>,
    <<"0", "3", ":", "4", "5">>,
    <<"2", "5", ":", "9", "9">>,
    <<"3", ":", "4", "5">> }
KundliTimezones ==
  { <<"A", "s", "i", "a", "/", "K", "o", "l", "k", "a", "t", "a">>,
    <<"+", "0", "5", ":", "3", "0">> }

KundliGenerationRequests ==
  [latitude : KundliLatitudes, longitude : KundliLongitudes,
   dateOfBirth : KundliDates, timeOfBirth : KundliTimes,
   timezone : KundliTimezones]

NoRequest ==
  [latitude |-> 0, longitude |-> 0, dateOfBirth |-> <<>>, timeOfBirth |-> <<>>,
   timezone |-> <<>>]

\* no activation of generateKundli
KundliIdle ==
  /\ request = NoRequest /\ pc = "idle"
  /\ natalChart = null /\ vargaCharts = null /\ dashaData = null
  /\ hasVedicChart = FALSE /\ confidence = "medium"
  /\ yogas = <<>> /\ aiEnhancedReading = "none" /\ savedChart = null
  /\ error = "none" /\ calls = <<>> /\ result = null

\* generateKundli(request) is called
GenerateKundli ==
  /\ pc = "idle"
  /\ \E r \in KundliGenerationRequests : request' = r
  /\ pc' = "validateBirthData"
  /\ UNCHANGED <<natalChart, vargaCharts, dashaData, hasVedicChart, confidence,
                 yogas, aiEnhancedReading, savedChart, error, calls, result>>
  /\ UNCHANGED <<callerVars, serverVars>>

\* lines 43-54: the validation, the declarations of the locals and the test
\* of request.timeOfBirth
ValidateBirthData ==
  /\ pc = "validateBirthData"
  /\ IF validateBirthData(request.latitude, request.longitude,
                          request.dateOfBirth, request.timeOfBirth)
     THEN /\ pc' = IF Truthy(request.timeOfBirth)
                   THEN "computeNatalChart" ELSE "detectYogas"
          /\ error' = error
     ELSE /\ pc' = "catch"
          /\ error' = "Invalid birth data provided"
  /\ hasVedicChart' = FALSE
  /\ natalChart' = null /\ vargaCharts' = null /\ dashaData' = null
  /\ confidence' = "medium"
  /\ UNCHANGED <<request, yogas, aiEnhancedReading, savedChart, calls, result>>
  /\ UNCHANGED <<callerVars, serverVars>>

\* natalChart = await computeNatalChart(...)
ComputeNatalChart ==
  /\ pc = "computeNatalChart"
  /\ calls' = Append(calls, "computeNatalChart")
  /\ natalChart' = computeNatalChart(request.latitude, request.longitude,
                                     request.dateOfBirth, request.timeOfBirth,
                                     request.timezone)
  /\ pc' = "computeVargas"
  /\ UNCHANGED <<request, vargaCharts, dashaData, hasVedicChart, confidence,
                 yogas, aiEnhancedReading, savedChart, error, result>>
  /\ UNCHANGED <<callerVars, serverVars>>

\* vargaCharts = computeVargas(natalChart)
ComputeVargas ==
  /\ pc = "computeVargas"
  /\ calls' = Append(calls, "computeVargas")
  /\ vargaCharts' = computeVargas(natalChart)
  /\ pc' = "computeVimshottariDasa"
  /\ UNCHANGED <<request, natalChart, dashaData, hasVedicChart, confidence,
                 yogas, aiEnhancedReading, savedChart, error, result>>
  /\ UNCHANGED <<callerVars, serverVars>>

\* dashaData = computeVimshottariDasa(natalChart.planets.moon.longitude) and
\* the two assignments after it, or the catch block of the inner try when
\* the function throws
ComputeVimshottariDasa ==
  /\ pc = "computeVimshottariDasa"
  /\ calls' = Append(calls, "computeVimshottariDasa")
  /\ IF DasaThrows(natalChart.planets.moon.longitude)
     THEN UNCHANGED <<dashaData, hasVedicChart, confidence>>
     ELSE /\ dashaData' = computeVimshottariDasa(natalChart.planets.moon.longitude)
          /\ hasVedicChart' = TRUE
          /\ confidence' = "high"
  /\ pc' = "detectYogas"
  /\ UNCHANGED <<request, natalChart, vargaCharts, yogas, aiEnhancedReading,
                 savedChart, error, result>>
  /\ UNCHANGED <<callerVars, serverVars>>

\* yogas = detectYogas(natalChart); generateVedicInterpretation catches its
\* own errors and always returns a reading
DetectYogas ==
  /\ pc = "detectYogas"
  /\ yogas' = detectYogas(natalChart)
  /\ pc' = "generateKundliInsight"
  /\ UNCHANGED <<request, natalChart, vargaCharts, dashaData, hasVedicChart,
                 confidence, aiEnhancedReading, savedChart, error, calls, result>>
  /\ UNCHANGED <<callerVars, serverVars>>

\* aiEnhancedReading = await generateKundliInsight(...): the function
\* returns the model's answer, or its fallback response when there is no
\* client or the request fails; it does not throw
GenerateKundliInsight ==
  /\ pc = "generateKundliInsight"
  /\ \E response \in {"llm", "fallback"} : aiEnhancedReading' = response
  /\ pc' = "insertKundliChart"
  /\ UNCHANGED <<request, natalChart, vargaCharts, dashaData, hasVedicChart,
                 confidence, yogas, savedChart, error, calls, result>>
  /\ UNCHANGED <<callerVars, serverVars>>

\* the row written to kundli_charts
KundliChartRow ==
  [natalChart |-> OrEmptyObject(natalChart),
   vargaCharts |-> OrEmptyObject(vargaCharts),
   dashaData |-> OrEmptyObject(dashaData),
   yogas |-> yogas,
   calculationMethod |-> IF hasVedicChart THEN "swiss_ephemeris"
                         ELSE "numerology_only"]

\* await db.insert(kundliCharts)...returning(): the row is stored, or the
\* database rejects
InsertKundliChart ==
  /\ pc = "insertKundliChart"
  /\ \/ /\ savedChart' = KundliChartRow
        /\ pc' = "insertAstroReading"
        /\ error' = error
     \/ /\ savedChart' = savedChart
        /\ pc' = "catch"
        /\ error' = "database error"
  /\ UNCHANGED <<request, natalChart, vargaCharts, dashaData, hasVedicChart,
                 confidence, yogas, aiEnhancedReading, calls, result>>
  /\ UNCHANGED <<callerVars, serverVars>>

\* await db.insert(astroReadings), then await logAuditEvent(...), which
\* catches its own errors
InsertAstroReading ==
  /\ pc = "insertAstroReading"
  /\ \/ pc' = "return" /\ error' = error
     \/ pc' = "catch" /\ error' = "database error"
  /\ UNCHANGED <<request, natalChart, vargaCharts, dashaData, hasVedicChart,
                 confidence, yogas, aiEnhancedReading, savedChart, calls, result>>
  /\ UNCHANGED <<callerVars, serverVars>>

\* lines 129-143
GeneratedKundli ==
  [natalChart |-> OrEmptyObject(natalChart),
   vargaCharts |-> OrEmptyObject(vargaCharts),
   dashaData |-> OrEmptyObject(dashaData),
   yogas |-> yogas,
   reading |-> [source |-> aiEnhancedReading, confidence |-> confidence],
   hasVedicChart |-> hasVedicChart]

ReturnKundli ==
  /\ pc = "return"
  /\ result' = GeneratedKundli
  /\ pc' = "resolved"
  /\ UNCHANGED <<request, natalChart, vargaCharts, dashaData, hasVedicChart,
                 confidence, yogas, aiEnhancedReading, savedChart, error, calls>>
  /\ UNCHANGED <<callerVars, serverVars>>

\* the outer catch block: the failure is logged and the error is thrown again
CatchAndRethrow ==
  /\ pc = "catch"
  /\ pc' = "rejected"
  /\ UNCHANGED <<request, natalChart, vargaCharts, dashaData, hasVedicChart,
                 confidence, yogas, aiEnhancedReading, savedChart, error, calls,
                 result>>
  /\ UNCHANGED <<callerVars, serverVars>>

\* the promise is settled; the next call starts from a fresh activation
Settled ==
  /\ pc \in {"resolved", "rejected"}
  /\ request' = NoRequest /\ pc' = "idle"
  /\ natalChart' = null /\ vargaCharts' = null /\ dashaData' = null
  /\ hasVedicChart' = FALSE /\ confidence' = "medium"
  /\ yogas' = <<>> /\ aiEnhancedReading' = "none" /\ savedChart' = null
  /\ error' = "none" /\ calls' = <<>> /\ result' = null
  /\ UNCHANGED <<callerVars, serverVars>>

NextKundli ==
  \/ GenerateKundli
  \/ ValidateBirthData
  \/ ComputeNatalChart
  \/ ComputeVargas
  \/ ComputeVimshottariDasa
  \/ DetectYogas
  \/ GenerateKundliInsight
  \/ InsertKundliChart
  \/ InsertAstroReading
  \/ ReturnKundli
  \/ CatchAndRethrow
  \/ Settled

----------------------------------------------------------------------------
(* The caller: one exported function is invoked at a time                   *)

Idle == op = "none"

\* no activation of reduceToSingleDigit is on the stack
LoopIdle == loopNum = 0 /\ loopKeep = TRUE /\ loopPc = "idle"

\* the addresses requests come from
ClientAddresses == {"10.0.0.1", "10.0.0.2"}

\* chartLimiter has seen no request and no response was sent
ChartIdle ==
  /\ chartHits = [ip \in ClientAddresses |-> null]
  /\ chartResponses = <<>>

\* the users of the service
UserIds == {"user-1", "user-2"}

\* the user whose generateKundliInsight calls are followed
InsightUserIds == {"user-1"}

MaxInsightCalls == 6

\* no user has asked for an insight
InsightIdle ==
  /\ userRequestCounts = [userId \in InsightUserIds |-> null]
  /\ insightCalls = <<>>
  /\ groqRequests = <<>>

MaxChatCalls == 3

\* the ids the chatSessions table can give out
SessionIds == 1..MaxChatCalls

\* the chatSessions table is empty and no message was sent
ChatIdle ==
  /\ chatSessions = [id \in SessionIds |-> null]
  /\ chatSessionSeq = 0
  /\ chatCalls = <<>>

ServerIdle ==
  /\ LoopIdle /\ now = 0 /\ ChartIdle /\ InsightIdle /\ ChatIdle
  /\ kundliCharts = <<>>
  /\ rateLimitArgs = <<>>
  /\ requests = [key \in ClientAddresses |-> null]
  /\ rateLimited = <<>>

InitNumerology ==
  op = "none" /\ args = <<>> /\ ret = 0 /\ KundliIdle /\ ServerIdle

CallReduceToSingleDigit ==
  /\ Idle
  /\ \E num \in 0..MaxNum, keepMasterNumbers \in BOOLEAN :
       /\ op' = "reduceToSingleDigit"
       /\ args' = <<num, keepMasterNumbers>>
       /\ ret' = reduceToSingleDigit(num, keepMasterNumbers)
  /\ UNCHANGED <<kundliVars, serverVars>>

CallCalculateLifePathNumber ==
  /\ Idle
  /\ \E dt \in Dates :
       /\ op' = "calculateLifePathNumber"
       /\ args' = <<dt.day, dt.month, dt.year>>
       /\ ret' = calculateLifePathNumber(dt.day, dt.month, dt.year)
  /\ UNCHANGED <<kundliVars, serverVars>>

CallGenerateLoShuGrid ==
  /\ Idle
  /\ \E dt \in Dates :
       /\ op' = "generateLoShuGrid"
       /\ args' = <<dt.day, dt.month, dt.year>>
       /\ ret' = generateLoShuGrid(dt.day, dt.month, dt.year)
  /\ UNCHANGED <<kundliVars, serverVars>>

CallCalculateExpressionNumber ==
  /\ Idle
  /\ \E fullName \in Names :
       /\ op' = "calculateExpressionNumber"
       /\ args' = <<fullName>>
       /\ ret' = calculateExpressionNumber(fullName)
  /\ UNCHANGED <<kundliVars, serverVars>>

CallCalculateChallenges ==
  /\ Idle
  /\ \E dt \in Dates :
       /\ op' = "calculateChallenges"
       /\ args' = <<dt.day, dt.month, dt.year>>
       /\ ret' = calculateChallenges(dt.day, dt.month, dt.year)
  /\ UNCHANGED <<kundliVars, serverVars>>

CallGetHiddenPassionNumber ==
  /\ Idle
  /\ \E name \in Names :
       /\ op' = "getHiddenPassionNumber"
       /\ args' = <<name>>
       /\ ret' = getHiddenPassionNumber(name)
  /\ UNCHANGED <<kundliVars, serverVars>>

Return ==
  /\ ~Idle
  /\ op' = "none" /\ args' = <<>> /\ ret' = 0
  /\ UNCHANGED <<kundliVars, serverVars>>

NextNumerology ==
  \/ CallReduceToSingleDigit
  \/ CallCalculateLifePathNumber
  \/ CallGenerateLoShuGrid
  \/ CallCalculateExpressionNumber
  \/ CallGetHiddenPassionNumber
  \/ CallCalculateChallenges
  \/ Return

SpecNumerology == InitNumerology /\ [][NextNumerology]_vars

----------------------------------------------------------------------------
(* POST /api/compatibility/calculate: two partners, each a name and a date  *)

\* the partner names tried: one letter, master-number names, mixed case
\* with blanks and punctuation
CompatNames ==
  { <<"A">>,
    <<"D", "-", "a", "n">>,
    <<"K", "R">>,
    <<"E", "O">>,
    <<"R", "i", "D">>,
    <<"R", "R", "R", "F">>,
    <<"J", "o", "h", "n", " ", "S", "m", "i", "t", "h">>,
    <<"R", "a", "m", " ", "K", "u", "m", "a", "r">> }

\* the partner birth dates tried: every day of February 1989, and 12 to 15
\* May 1990
CompatDates ==
  {dt \in Dates : dt.year = 1989 /\ dt.month = 2}
    \cup {dt \in Dates : dt.year = 1990 /\ dt.month = 5 /\ dt.day \in 12..15}

\* a partner as the route builds it from the request body
CompatPersons ==
  {Person(name, dt.day, dt.month, dt.year) : name \in CompatNames, dt \in CompatDates}

CallCalculateAdvancedCompatibility ==
  /\ Idle
  /\ \E person1 \in CompatPersons, person2 \in CompatPersons :
       /\ op' = "calculateAdvancedCompatibility"
       /\ args' = <<person1, person2>>
       /\ ret' = calculateAdvancedCompatibility(person1, person2)
  /\ UNCHANGED <<kundliVars, serverVars>>

NextCompat ==
  \/ CallCalculateAdvancedCompatibility
  \/ Return

SpecCompat == InitNumerology /\ [][NextCompat]_vars

----------------------------------------------------------------------------
(* generateKundli, one activation after another                             *)

SpecKundli == InitNumerology /\ [][NextKundli]_vars

----------------------------------------------------------------------------
(* The functions of ephemeris.ts, called one at a time                      *)

\* a number below 100 written with two digits, a year with four
TwoDigits(n) == <<DigitChars[(n \div 10) + 1], DigitChars[(n % 10) + 1]>>
FourDigits(n) == TwoDigits(n \div 100) \o TwoDigits(n % 100)

\* YYYY-MM-DD and HH:MM
FormatDate(year, month, day) ==
  FourDigits(year) \o <<"-">> \o TwoDigits(month) \o <<"-">> \o TwoDigits(day)
FormatTime(hours, minutes) == TwoDigits(hours) \o <<":">> \o TwoDigits(minutes)

\* the birth instants tried: every day of May and of August 1978 (before
\* J2000.0) and of March 2010 (after it), at four times of the day
EphemerisDates ==
  {FormatDate(1978, month, day) : month \in {5, 8}, day \in 1..31}
    \cup {FormatDate(2010, 3, day) : day \in 1..31}
EphemerisTimes ==
  {FormatTime(3, 45), FormatTime(10, 30), FormatTime(12, 0), FormatTime(23, 59)}
\* the geographic longitudes tried, in whole degrees
EphemerisLongitudes == {-122, 0, 77}

\* the zone name the routes pass when the request names none
DefaultTimezone == <<"A", "s", "i", "a", "/", "K", "o", "l", "k", "a", "t", "a">>

\* minutes since J2000.0 of the instants tried
EphemerisMinutes ==
  {MinutesSinceJ2000(ParseBirthDateTime(dob, tob, DefaultTimezone)) :
     dob \in EphemerisDates, tob \in {FormatTime(3, 45), FormatTime(12, 0)}}

\* the offsets within a 30 degree sign tried: a grid, and the micro-degrees
\* around the edges of the ninth, tenth and twelfth parts of a sign
DegreeSamples ==
  {k * 1250000 : k \in 0..23}
    \cup {2499999, 2500001, 2999999, 3000001, 3333332, 3333333, 3333334,
          26666664, 26666665, 26999999, 27499999, 29999996, 29999997,
          29999999}

\* the longitudes in [0, 360) tried for computeVargas
VargaLongitudes == {sign * 30 * Deg + e : sign \in 0..11, e \in DegreeSamples}

\* the offsets within a nakshatra tried: the quarters and their edges
NakshatraSamples ==
  {0, 1, 1666666, 3333332, 3333333, 3333334, 5000000, 6666666, 6666667,
   8333333, 9999999, 10000000, 11666666, 13333332}

\* the Moon longitudes in [0, 360) tried for getNakshatraPada and
\* computeVimshottariDasa
MoonLongitudes ==
  {L \in {n * 13333333 + e : n \in 0..27, e \in NakshatraSamples} : L < Turn}
    \cup {359999990, 359999999}

\* a chart holding one planet, the Sun, at a given sidereal longitude
ChartOf(longitude) == [planets |-> [sun |-> PlanetPosition("sun", longitude)]]

\* what a call leaves when the function throws
Thrown == [threw |-> "TypeError"]

CallComputeNatalChart ==
  /\ Idle
  /\ \E dob \in EphemerisDates, tob \in EphemerisTimes,
        lon \in EphemerisLongitudes :
       /\ op' = "computeNatalChart"
       /\ args' = <<28, lon, dob, tob, DefaultTimezone>>
       /\ ret' = computeNatalChart(28, lon, dob, tob, DefaultTimezone)
  /\ UNCHANGED <<kundliVars, serverVars>>

CallCalculatePlanetLongitude ==
  /\ Idle
  /\ \E i \in 1..Len(PlanetNames), julianDay \in EphemerisMinutes :
       /\ op' = "calculatePlanetLongitude"
       /\ args' = <<PlanetNames[i], julianDay>>
       /\ ret' = calculatePlanetLongitude(PlanetNames[i], julianDay)
  /\ UNCHANGED <<kundliVars, serverVars>>

CallGetNakshatraPada ==
  /\ Idle
  /\ \E moonLongitude \in MoonLongitudes :
       /\ op' = "getNakshatraPada"
       /\ args' = <<moonLongitude>>
       /\ ret' = getNakshatraPada(moonLongitude)
  /\ UNCHANGED <<kundliVars, serverVars>>

CallComputeVargas ==
  /\ Idle
  /\ \E longitude \in VargaLongitudes :
       /\ op' = "computeVargas"
       /\ args' = <<ChartOf(longitude)>>
       /\ ret' = computeVargas(ChartOf(longitude))
  /\ UNCHANGED <<kundliVars, serverVars>>

CallComputeVimshottariDasa ==
  /\ Idle
  /\ \E moonLongitude \in MoonLongitudes :
       /\ op' = "computeVimshottariDasa"
       /\ args' = <<moonLongitude>>
       /\ ret' = IF DasaThrows(moonLongitude) THEN Thrown
                 ELSE computeVimshottariDasa(moonLongitude)
  /\ UNCHANGED <<kundliVars, serverVars>>

NextEphemeris ==
  \/ CallComputeNatalChart
  \/ CallCalculatePlanetLongitude
  \/ CallGetNakshatraPada
  \/ CallComputeVargas
  \/ CallComputeVimshottariDasa
  \/ Return

SpecEphemeris == InitNumerology /\ [][NextEphemeris]_vars

----------------------------------------------------------------------------
(* reduceToSingleDigit executed statement by statement.  The caller's op    *)
(* and args hold the call; ret receives the value of the return statement.  *)

\* reduceToSingleDigit(num, keepMasterNumbers) is called
EnterReduceToSingleDigit ==
  /\ Idle /\ loopPc = "idle"
  /\ \E n \in 0..MaxNum, k \in BOOLEAN :
       /\ op' = "reduceToSingleDigit"
       /\ args' = <<n, k>>
       /\ loopNum' = n
       /\ loopKeep' = k
  /\ loopPc' = "if"
  /\ UNCHANGED <<ret, kundliVars, exceptLoop>>

\* if (keepMasterNumbers && (num === 11 || num === 22 || num === 33)) return
MasterNumberCheck ==
  /\ loopPc = "if"
  /\ loopPc' = IF loopKeep /\ loopNum \in MasterNumbers
               THEN "return" ELSE "while"
  /\ UNCHANGED <<loopNum, loopKeep, callerVars, kundliVars, exceptLoop>>

\* one evaluation of the loop condition and, if it holds, of the loop body
WhileIteration ==
  /\ loopPc = "while"
  /\ IF loopNum > 9
     THEN /\ loopNum' = DigitSum(loopNum)
          /\ loopPc' = IF loopKeep /\ loopNum' \in MasterNumbers
                       THEN "return" ELSE "while"
     ELSE /\ loopNum' = loopNum
          /\ loopPc' = "return"
  /\ UNCHANGED <<loopKeep, callerVars, kundliVars, exceptLoop>>

\* return num
ReturnNum ==
  /\ loopPc = "return"
  /\ ret' = loopNum
  /\ loopPc' = "returned"
  /\ UNCHANGED <<op, args, loopNum, loopKeep, kundliVars, exceptLoop>>

\* the caller takes the value; the activation is gone
LeaveReduceToSingleDigit ==
  /\ loopPc = "returned"
  /\ op' = "none" /\ args' = <<>> /\ ret' = 0
  /\ loopNum' = 0 /\ loopKeep' = TRUE /\ loopPc' = "idle"
  /\ UNCHANGED <<kundliVars, exceptLoop>>

ReduceStep == MasterNumberCheck \/ WhileIteration \/ ReturnNum

NextReduce ==
  \/ EnterReduceToSingleDigit
  \/ MasterNumberCheck
  \/ WhileIteration
  \/ ReturnNum
  \/ LeaveReduceToSingleDigit

\* a synchronous function body runs to completion once entered: the engine
\* keeps executing its next statement
SpecReduce ==
  InitNumerology /\ [][NextReduce]_vars /\ WF_vars(ReduceStep)

----------------------------------------------------------------------------
(* POST /api/vedic/compute-chart behind authenticateUser and chartLimiter.  *)
(* Time is counted in units of 30 minutes.  chartLimiter is an              *)
(* express-rate-limit instance with its in-memory store: for each client    *)
(* address it counts the hits of the current window, which starts with the  *)
(* first hit and ends windowMs later, and it refuses a hit beyond max.      *)

\* windowMs: 60 * 60 * 1000, in units of 30 minutes
ChartWindow == 2
\* max: 3
ChartMax == 3

MaxTime == 3
MaxChartRequests == 5

\* the clock advances
Tick ==
  /\ now < MaxTime
  /\ now' = now + 1
  /\ UNCHANGED <<callerVars, kundliVars, exceptClock>>

\* a middleware yields the status it answers with, or 0 when it calls next()

\* authenticateUser: 401 unless the Authorization header carries a token
\* that jwt.verify accepts
authenticateUser(authorization) ==
  IF authorization = "valid" THEN 0 ELSE 401

\* the store's counter of a client after one more hit at the present time
ChartHit(ip) ==
  IF chartHits[ip] = null \/ now >= chartHits[ip].resetTime
  THEN [totalHits |-> 1, resetTime |-> now + ChartWindow]
  ELSE [totalHits |-> chartHits[ip].totalHits + 1,
        resetTime |-> chartHits[ip].resetTime]

\* chartLimiter: 429 when the hit exceeds max
chartLimiter(ip) == IF ChartHit(ip).totalHits > ChartMax THEN 429 ELSE 0

\* sanitizeInput, validateChartCompute and the handler: 400 for a body that
\* fails validation or lacks consent, otherwise generateKundli is awaited and
\* the response is 200 if it resolves, 500 if it rejects
ComputeChartHandler(body, kundli) ==
  IF body # "valid" THEN 400
  ELSE IF kundli = "resolves" THEN 200 ELSE 500

\* one request runs through the middleware chain of the route
PostComputeChart ==
  /\ Len(chartResponses) < MaxChartRequests
  /\ \E ip \in ClientAddresses, authorization \in {"valid", "missing"},
        body \in {"valid", "invalid"}, kundli \in {"resolves", "rejects"} :
       LET status ==
             IF authenticateUser(authorization) # 0
             THEN authenticateUser(authorization)
             ELSE IF chartLimiter(ip) # 0
                  THEN chartLimiter(ip)
                  ELSE ComputeChartHandler(body, kundli)
       IN  /\ \/ body = "valid" /\ kundli = "resolves"
              \/ status = 400 /\ kundli = "resolves"
              \/ status = 500
           /\ chartHits' =
                IF authenticateUser(authorization) = 0
                THEN [chartHits EXCEPT ![ip] = ChartHit(ip)]
                ELSE chartHits
           /\ chartResponses' =
                Append(chartResponses,
                       [ip |-> ip, time |-> now, status |-> status,
                        generateKundli |-> status \in {200, 500}])
  /\ UNCHANGED <<callerVars, kundliVars, now, exceptChart>>

NextChart == Tick \/ PostComputeChart

SpecChart == InitNumerology /\ [][NextChart]_vars

----------------------------------------------------------------------------
(* server/services/compatibility-service.ts: the category label of          *)
(* getCompatibilityHistory and the category scores of analyzeCompatibility. *)
(* Similarities are exact, in eighths.                                      *)

\* the label text before its emoji
getCategoryFromScore(score) ==
  IF score >= 85 THEN "Excellent Match"
  ELSE IF score >= 70 THEN "Good Match"
  ELSE IF score >= 55 THEN "Average Match"
  ELSE "Challenging Match"

\* 1 - Math.abs(a - b) / 8, in eighths
Eighths(a, b) == 8 - Abs(a - b)

\* Math.round(x * factor) of x given in eighths: the nearest integer, a tie
\* going up
RoundEighths(x, factor) == (x * factor + 4) \div 8

\* Math.round((baseScore + 0.1) * 100); 0.1 is not a binary fraction, and of
\* the sums that arise only the one for a difference of 11 is rounded off its
\* tie: (-0.375 + 0.1) * 100 is -27.500000000000004
FinancialScore(baseScore) ==
  IF baseScore = -3 THEN -28 ELSE (baseScore * 100 + 80 + 4) \div 8

generateCategoryScores(person1, person2) ==
  LET baseScore == Eighths(person1.lifePathNumber, person2.lifePathNumber)
      soul == Eighths(person1.soulUrgeNumber, person2.soulUrgeNumber)
      expr == Eighths(person1.expressionNumber, person2.expressionNumber)
      person == Eighths(person1.personalityNumber, person2.personalityNumber)
      bday == Eighths(person1.birthdayNumber, person2.birthdayNumber)
  IN  [love |-> RoundEighths(baseScore + soul, 50),
       marriage |-> RoundEighths(baseScore + expr, 50),
       career |-> RoundEighths(expr, 100),
       family |-> RoundEighths(person, 100),
       financial |-> FinancialScore(baseScore),
       spiritual |-> RoundEighths(soul, 100),
       communication |-> RoundEighths(person, 100),
       lifestyle |-> RoundEighths(bday, 100)]

\* getCompatibilityHistory labels a stored overallScore
CallGetCategoryFromScore ==
  /\ Idle
  /\ \E score \in 0..100 :
       /\ op' = "getCategoryFromScore"
       /\ args' = <<score>>
       /\ ret' = getCategoryFromScore(score)
  /\ UNCHANGED <<kundliVars, serverVars>>

\* analyzeCompatibility scores the two calculateNumerology profiles
CallGenerateCategoryScores ==
  /\ Idle
  /\ \E person1 \in CompatPersons, person2 \in CompatPersons :
       /\ op' = "generateCategoryScores"
       /\ args' = <<person1, person2>>
       /\ ret' = generateCategoryScores(person1, person2)
  /\ UNCHANGED <<kundliVars, serverVars>>

NextCategories ==
  \/ CallGetCategoryFromScore
  \/ CallGenerateCategoryScores
  \/ Return

SpecCategories == InitNumerology /\ [][NextCategories]_vars

----------------------------------------------------------------------------
(* server/services/llm-service.ts: generateKundliInsight called with a      *)
(* userId, a configured Groq client and a cache key not seen before.  The   *)
(* function runs without interruption up to its await of the API request    *)
(* and again from the response to its return.                               *)

\* RATE_LIMIT
RATE_LIMIT == 5
\* RATE_WINDOW: 60 * 60 * 1000, in units of 30 minutes
RATE_WINDOW == 2

\* the counter of a user after checkRateLimit: a missing or expired one is
\* replaced by a fresh one with count 0
CheckedRateLimit(userId) ==
  IF userRequestCounts[userId] = null \/ now > userRequestCounts[userId].resetTime
  THEN [count |-> 0, resetTime |-> now + RATE_WINDOW]
  ELSE userRequestCounts[userId]

checkRateLimit(userId) ==
  \/ userRequestCounts[userId] = null
  \/ now > userRequestCounts[userId].resetTime
  \/ userRequestCounts[userId].count < RATE_LIMIT

\* the counter of a user after updateRateLimit
updateRateLimit(userId) ==
  IF userRequestCounts[userId] = null
  THEN userRequestCounts[userId]
  ELSE [userRequestCounts[userId] EXCEPT !.count = @ + 1]

\* generateKundliInsight up to its await: the rate limit check, the cache
\* miss and the request to the API; a refused call returns the fallback
StartKundliInsight ==
  /\ Len(insightCalls) < MaxInsightCalls
  /\ \E userId \in InsightUserIds :
       /\ userRequestCounts' =
            [userRequestCounts EXCEPT ![userId] = CheckedRateLimit(userId)]
       /\ IF checkRateLimit(userId)
          THEN /\ groqRequests' =
                    Append(groqRequests, [userId |-> userId, time |-> now])
               /\ insightCalls' =
                    Append(insightCalls, [userId |-> userId, pc |-> "await"])
          ELSE /\ groqRequests' = groqRequests
               /\ insightCalls' =
                    Append(insightCalls, [userId |-> userId, pc |-> "fallback"])
  /\ UNCHANGED <<callerVars, kundliVars, now, exceptInsight>>

\* the API answers: the response is cached, the counter updated and the
\* response returned
KundliInsightResponse ==
  /\ \E i \in 1..Len(insightCalls) :
       /\ insightCalls[i].pc = "await"
       /\ userRequestCounts' =
            [userRequestCounts EXCEPT ![insightCalls[i].userId] =
               updateRateLimit(insightCalls[i].userId)]
       /\ insightCalls' = [insightCalls EXCEPT ![i].pc = "response"]
  /\ UNCHANGED <<groqRequests, callerVars, kundliVars, now, exceptInsight>>

\* the API request fails: the catch block returns the fallback
KundliInsightError ==
  /\ \E i \in 1..Len(insightCalls) :
       /\ insightCalls[i].pc = "await"
       /\ insightCalls' = [insightCalls EXCEPT ![i].pc = "fallback"]
  /\ UNCHANGED <<userRequestCounts, groqRequests, callerVars, kundliVars, now,
                 exceptInsight>>

NextInsight ==
  \/ Tick
  \/ StartKundliInsight
  \/ KundliInsightResponse
  \/ KundliInsightError

SpecInsight == InitNumerology /\ [][NextInsight]_vars

----------------------------------------------------------------------------
(* server/services/chat-service.ts.  Every await of sendChatMessage is a    *)
(* point where other calls run; the statements between two awaits are one   *)
(* action.  A message is identified by its role and the call that made it.  *)

\* the ids a client can know: those the table has given out
KnownSessionIds == 1..chatSessionSeq

\* sendChatMessage(userId, message, sessionId) is called; sessionId 0 is a
\* call without sessionId, session 0 a session not yet assigned
SendChatMessage ==
  /\ Len(chatCalls) < MaxChatCalls
  /\ \E userId \in UserIds, sessionId \in {0} \cup KnownSessionIds :
       chatCalls' =
         Append(chatCalls,
                [userId |-> userId, sessionId |-> sessionId, session |-> 0,
                 messages |-> <<>>,
                 pc |-> IF sessionId # 0 THEN "select" ELSE "insert"])
  /\ UNCHANGED <<chatSessions, chatSessionSeq, callerVars, kundliVars, exceptChat>>

\* messages.push(userMessage)
UserMessage(call) == [role |-> "user", call |-> call]
\* messages.push(assistantMessage)
AssistantMessage(call) == [role |-> "assistant", call |-> call]

\* the select of the session row resolves; an existing session of the caller
\* is taken over with its messages and the user message is added
SelectChatSession ==
  /\ \E i \in 1..Len(chatCalls) :
       LET call == chatCalls[i]
           existingSession == chatSessions[call.sessionId]
       IN  /\ call.pc = "select"
           /\ chatCalls' =
                IF existingSession # null /\ existingSession.userId = call.userId
                THEN [chatCalls EXCEPT
                        ![i].session = call.sessionId,
                        ![i].messages =
                           Append(existingSession.messages, UserMessage(i)),
                        ![i].pc = "chat"]
                ELSE [chatCalls EXCEPT ![i].pc = "insert"]
  /\ UNCHANGED <<chatSessions, chatSessionSeq, callerVars, kundliVars, exceptChat>>

\* the insert of a new session resolves; the user message is added
InsertChatSession ==
  /\ \E i \in 1..Len(chatCalls) :
       /\ chatCalls[i].pc = "insert"
       /\ chatSessionSeq' = chatSessionSeq + 1
       /\ chatSessions' =
            [chatSessions EXCEPT ![chatSessionSeq'] =
               [userId |-> chatCalls[i].userId, messages |-> <<>>,
                messageCount |-> 0]]
       /\ chatCalls' =
            [chatCalls EXCEPT
               ![i].session = chatSessionSeq',
               ![i].messages = Append(chatCalls[i].messages, UserMessage(i)),
               ![i].pc = "chat"]
  /\ UNCHANGED <<callerVars, kundliVars, exceptChat>>

\* buildChatContext and chatWithNumenCoach resolve; the assistant message is
\* added and the update of the session row is issued
ChatResponse ==
  /\ \E i \in 1..Len(chatCalls) :
       /\ chatCalls[i].pc = "chat"
       /\ chatCalls' =
            [chatCalls EXCEPT
               ![i].messages = Append(chatCalls[i].messages, AssistantMessage(i)),
               ![i].pc = "update"]
  /\ UNCHANGED <<chatSessions, chatSessionSeq, callerVars, kundliVars, exceptChat>>

\* chatWithNumenCoach rejects; the catch block rethrows
ChatError ==
  /\ \E i \in 1..Len(chatCalls) :
       /\ chatCalls[i].pc = "chat"
       /\ chatCalls' = [chatCalls EXCEPT ![i].pc = "rejected"]
  /\ UNCHANGED <<chatSessions, chatSessionSeq, callerVars, kundliVars, exceptChat>>

\* the update of the session row resolves (no row is changed if the session
\* was deleted meanwhile) and the call returns
UpdateChatSession ==
  /\ \E i \in 1..Len(chatCalls) :
       LET call == chatCalls[i]
       IN  /\ call.pc = "update"
           /\ chatSessions' =
                IF chatSessions[call.session] = null
                THEN chatSessions
                ELSE [chatSessions EXCEPT
                        ![call.session].messages = call.messages,
                        ![call.session].messageCount = Len(call.messages)]
           /\ chatCalls' = [chatCalls EXCEPT ![i].pc = "resolved"]
  /\ UNCHANGED <<chatSessionSeq, callerVars, kundliVars, exceptChat>>

\* getChatSession(userId, sessionId)
getChatSession(userId, sessionId) ==
  IF chatSessions[sessionId] = null \/ chatSessions[sessionId].userId # userId
  THEN [threw |-> "Chat session not found or access denied"]
  ELSE chatSessions[sessionId].messages

CallGetChatSession ==
  /\ Idle
  /\ \E userId \in UserIds, sessionId \in KnownSessionIds :
       /\ op' = "getChatSession"
       /\ args' = <<userId, sessionId>>
       /\ ret' = getChatSession(userId, sessionId)
  /\ UNCHANGED <<kundliVars, serverVars>>

\* the rows db.delete(chatSessions).where(eq(chatSessions.id, sessionId))
\* removes
DeletedRows(userId, sessionId) ==
  IF chatSessions[sessionId] # null THEN {sessionId} ELSE {}

\* deleteChatSession(userId, sessionId); ret holds the owners of the rows
\* that were removed
CallDeleteChatSession ==
  /\ Idle
  /\ \E userId \in UserIds, sessionId \in KnownSessionIds :
       /\ op' = "deleteChatSession"
       /\ args' = <<userId, sessionId>>
       /\ ret' = {chatSessions[id].userId : id \in DeletedRows(userId, sessionId)}
       /\ chatSessions' =
            [id \in SessionIds |->
               IF id \in DeletedRows(userId, sessionId)
               THEN null ELSE chatSessions[id]]
  /\ UNCHANGED <<chatSessionSeq, chatCalls, kundliVars, exceptChat>>

NextChat ==
  \/ SendChatMessage
  \/ SelectChatSession
  \/ InsertChatSession
  \/ ChatResponse
  \/ ChatError
  \/ UpdateChatSession
  \/ CallGetChatSession
  \/ CallDeleteChatSession
  \/ Return

SpecChat == InitNumerology /\ [][NextChat]_vars

----------------------------------------------------------------------------
(* The kundliCharts table: generateKundli inserts a row, getUserKundli      *)
(* selects one row of the user and updates its access tracking.  The row    *)
(* with id i is kundliCharts[i].                                            *)

MaxCharts == 3
MaxAccessCount == 2

\* db.insert(kundliCharts) of generateKundli; generatedAt is the time of the
\* insert
InsertKundliChartRow ==
  /\ Idle
  /\ Len(kundliCharts) < MaxCharts
  /\ \E userId \in UserIds :
       kundliCharts' =
         Append(kundliCharts,
                [userId |-> userId, generatedAt |-> now, lastAccessedAt |-> null,
                 accessCount |-> 0])
  /\ UNCHANGED <<callerVars, kundliVars, now, exceptKundliCharts>>

\* the ids of the charts of a user
ChartsOf(userId) ==
  {id \in 1..Len(kundliCharts) : kundliCharts[id].userId = userId}

\* the rows select ... where userId orderBy(generatedAt) limit(1) can yield:
\* the order is ascending, rows with equal generatedAt come in any order
FirstGeneratedCharts(userId) ==
  {id \in ChartsOf(userId) :
     \A other \in ChartsOf(userId) :
       kundliCharts[id].generatedAt <= kundliCharts[other].generatedAt}

\* getUserKundli(userId): null without a chart, otherwise the selected chart
\* after the update of its lastAccessedAt and accessCount
CallGetUserKundli ==
  /\ Idle
  /\ \E userId \in UserIds :
       /\ op' = "getUserKundli"
       /\ args' = <<userId>>
       /\ IF ChartsOf(userId) = {}
          THEN /\ ret' = null
               /\ kundliCharts' = kundliCharts
          ELSE \E id \in FirstGeneratedCharts(userId) :
                 /\ kundliCharts[id].accessCount < MaxAccessCount
                 /\ ret' = [chartId |-> id]
                 /\ kundliCharts' =
                      [kundliCharts EXCEPT
                         ![id].lastAccessedAt = now,
                         ![id].accessCount = kundliCharts[id].accessCount + 1]
  /\ UNCHANGED <<kundliVars, now, exceptKundliCharts>>

NextKundliCharts ==
  \/ Tick
  \/ InsertKundliChartRow
  \/ CallGetUserKundli
  \/ Return

SpecKundliCharts == InitNumerology /\ [][NextKundliCharts]_vars

----------------------------------------------------------------------------
(* server/middleware/auth.ts: rateLimit(maxRequests, windowMs).  The        *)
(* middleware is created once, with a positive limit (with maxRequests 0    *)
(* the first request of a window would be admitted all the same) and a      *)
(* window of one or two units of time.                                      *)

MaxLimiterRequests == 4

\* rateLimit(maxRequests, windowMs) is called: the map is empty
RateLimit ==
  /\ rateLimitArgs = <<>>
  /\ \E maxRequests \in 1..2, windowMs \in 1..2 :
       rateLimitArgs' = <<maxRequests, windowMs>>
  /\ UNCHANGED <<requests, rateLimited, callerVars, kundliVars, now, exceptLimiter>>

\* variant of the first test: the window is over at resetTime already
WindowOverAtResetTime(userRequests) ==
  userRequests = null \/ now >= userRequests.resetTime

\* !userRequests || now > userRequests.resetTime
WindowOver(userRequests) ==
  userRequests = null \/ now > userRequests.resetTime

\* the entry of the key after the request
RateLimitEntry(userRequests) ==
  IF WindowOver(userRequests)
  THEN [count |-> 1, resetTime |-> now + rateLimitArgs[2]]
  ELSE IF userRequests.count >= rateLimitArgs[1]
       THEN userRequests
       ELSE [userRequests EXCEPT !.count = @ + 1]

\* 429 for a request refused, 0 for one passed on with next()
RateLimitStatus(userRequests) ==
  IF ~WindowOver(userRequests) /\ userRequests.count >= rateLimitArgs[1]
  THEN 429 ELSE 0

\* the middleware handles a request of a client
RateLimitRequest ==
  /\ rateLimitArgs # <<>>
  /\ Len(rateLimited) < MaxLimiterRequests
  /\ \E key \in ClientAddresses :
       /\ requests' = [requests EXCEPT ![key] = RateLimitEntry(requests[key])]
       /\ rateLimited' =
            Append(rateLimited,
                   [key |-> key, time |-> now,
                    status |-> RateLimitStatus(requests[key]),
                    count |-> requests'[key].count,
                    resetTime |-> requests'[key].resetTime])
  /\ UNCHANGED <<rateLimitArgs, callerVars, kundliVars, now, exceptLimiter>>

NextRateLimit ==
  \/ RateLimit
  \/ Tick
  \/ RateLimitRequest

SpecRateLimit == InitNumerology /\ [][NextRateLimit]_vars

----------------------------------------------------------------------------
(* Properties of calculateAdvancedCompatibility (SpecCompat)                *)

CompatCalled == op = "calculateAdvancedCompatibility"

\* C1: calculateAdvancedCompatibility returns an integer score s with
\* 0 <= s <= 100, whatever the two partners are.
C1_ScoreInRange == CompatCalled => ret.score \in 0..100

\* the weighted sum of two identical partners exceeds 1 and is clamped to 100
C1_Witness == CompatCalled /\ args[1] = args[2] /\ ret.score = 100

\* C2: the category is Excellent exactly for s >= 80, Good exactly for
\* 65 <= s <= 79, Average exactly for 50 <= s <= 64, Challenging exactly
\* for s <= 49.
C2_CategoryBands ==
  CompatCalled =>
    /\ ret.category = "Excellent Match" <=> ret.score >= 80
    /\ ret.category = "Good Match" <=> (65 <= ret.score /\ ret.score <= 79)
    /\ ret.category = "Average Match" <=> (50 <= ret.score /\ ret.score <= 64)
    /\ ret.category = "Challenging" <=> ret.score <= 49

\* a score on the lower edge of a band
C2_Witness == CompatCalled /\ ret.score = 80 /\ ret.category = "Excellent Match"

\* C3: swapping the two partners changes neither the score nor the category.
C3_Symmetric ==
  CompatCalled =>
    LET swapped == calculateAdvancedCompatibility(args[2], args[1])
    IN  swapped.score = ret.score /\ swapped.category = ret.category

\* two partners that differ in every number and in their Lo Shu digits
C3_Witness ==
  /\ CompatCalled
  /\ args[1].lifePathNumber < args[2].lifePathNumber
  /\ args[1].expressionNumber > args[2].expressionNumber
  /\ args[1].birthdayNumber # args[2].birthdayNumber
  /\ getLoShuGridDigits(args[1].day, args[1].month, args[1].year)
       # getLoShuGridDigits(args[2].day, args[2].month, args[2].year)
  /\ ret.score < 100

\* C4: each similarity score of Life Path, Expression, Soul Urge,
\* Personality and Birthday (1 - |a - b| / 8) lies in [0, 1].
C4_FactorScoresInUnitInterval ==
  CompatCalled =>
    \A x \in {scoreLp(args[1], args[2]), scoreExpr(args[1], args[2]),
              scoreSoul(args[1], args[2]), scorePerson(args[1], args[2]),
              scoreBday(args[1], args[2])} : 0 <= x /\ x <= 7200

\* C18: for every person p, calculateAdvancedCompatibility(p, p) adds the
\* 0.1 bonus for equal numbers to each of the Life Path, Expression, Soul
\* Urge and Personality scores, and returns a score of at least 80 with the
\* category Excellent.
C18_SamePersonExcellent ==
  (CompatCalled /\ args[1] = args[2]) =>
    /\ finalLpScore(args[1], args[2]) = 7200 + 720
    /\ finalExprScore(args[1], args[2]) = 7200 + 720
    /\ finalSoulScore(args[1], args[2]) = 7200 + 720
    /\ finalPersonScore(args[1], args[2]) = 7200 + 720
    /\ ret.score >= 80
    /\ ret.category = "Excellent Match"

\* a person with a master Life Path number compared with themselves
C18_Witness ==
  /\ CompatCalled /\ args[1] = args[2]
  /\ args[1].lifePathNumber = 33
  /\ ret.category = "Excellent Match"

----------------------------------------------------------------------------
(* Properties of the numerology functions (SpecNumerology)                  *)

\* C5: for every valid calendar date the life path number is one of
\* 1..9, 11, 22, 33.
C5_LifePathRange ==
  op = "calculateLifePathNumber" => ret \in (1..9) \cup {11, 22, 33}

\* 22 February 1989: 22 + 2 + 9 = 33 is kept as a master number
C5_Witness == op = "calculateLifePathNumber" /\ args = <<22, 2, 1989>> /\ ret = 33

\* C6 as stated: for every n >= 0, 0 included, reduceToSingleDigit(n, true)
\* is in 1..9 or 11, 22, 33 and reduceToSingleDigit(n, false) is in 1..9.
C6_ReduceRangeFromZero ==
  op = "reduceToSingleDigit" =>
    ret \in (IF args[2] THEN (1..9) \cup {11, 22, 33} ELSE 1..9)

\* C6 amended: the ranges hold for every n >= 1, and 0 is returned for 0
\* in both modes.
C6_ReduceRange ==
  op = "reduceToSingleDigit" =>
    IF args[1] = 0 THEN ret = 0
    ELSE ret \in (IF args[2] THEN (1..9) \cup {11, 22, 33} ELSE 1..9)

\* 1999 needs three passes (28, 10, 1); 0 is the input outside the range
C6_Witness ==
  op = "reduceToSingleDigit" /\ args[1] \in {0, 1999} /\ ret = IF args[1] = 0 THEN 0 ELSE 1

\* the k-th iterate of the decimal digit sum, by arithmetic on the number
RECURSIVE DecimalDigitSum(_)
DecimalDigitSum(n) == IF n = 0 THEN 0 ELSE (n % 10) + DecimalDigitSum(n \div 10)

RECURSIVE Iterate(_, _)
Iterate(n, k) == IF k = 0 THEN n ELSE DecimalDigitSum(Iterate(n, k - 1))

Stops(n) == n <= 9 \/ n \in {11, 22, 33}

\* the first iterate that is a single digit or one of 11, 22, 33
FirstStop(n) ==
  Iterate(n, CHOOSE k \in 0..4 :
               Stops(Iterate(n, k)) /\ \A j \in 0..(k - 1) : ~Stops(Iterate(n, j)))

\* C7: calculateLifePathNumber(day, month, year) is
\* reduce(reduce(day) + reduce(month) + reduce(year)) with reduce the first
\* iterate of the digit sum that is a single digit or 11, 22, 33; 15 May 1990
\* gives 6 + 5 + 1 = 12 and life path 3.
C7_LifePathFormula ==
  op = "calculateLifePathNumber" =>
    /\ ret = FirstStop(FirstStop(args[1]) + FirstStop(args[2]) + FirstStop(args[3]))
    /\ args = <<15, 5, 1990>> =>
         /\ FirstStop(15) = 6 /\ FirstStop(5) = 5 /\ FirstStop(1990) = 1
         /\ ret = 3

C7_Witness == op = "calculateLifePathNumber" /\ args = <<15, 5, 1990>> /\ ret = 3

\* the decimal digits of n as a set, by arithmetic
DecimalDigits(n) == {(n \div d) % 10 : d \in {x \in {1, 10, 100, 1000} : x <= n \/ x = 1}}

\* C8: the grid cell at (row, col) is 0 or the layout number of
\* [[4,9,2],[3,5,7],[8,1,6]] at that position, and it is non-zero exactly
\* when that number is a decimal digit of day, month or year or equals the
\* birthday number or the life path number.
C8_LoShuGrid ==
  op = "generateLoShuGrid" =>
    LET layout == << <<4, 9, 2>>, <<3, 5, 7>>, <<8, 1, 6>> >>
        present ==
          DecimalDigits(args[1]) \cup DecimalDigits(args[2]) \cup DecimalDigits(args[3])
            \cup {FirstStop(args[1])}
            \cup {FirstStop(FirstStop(args[1]) + FirstStop(args[2]) + FirstStop(args[3]))}
    IN  /\ DOMAIN ret = 1..3
        /\ \A row \in 1..3 :
             /\ DOMAIN ret[row] = 1..3
             /\ \A col \in 1..3 :
                  /\ ret[row][col] \in {0, layout[row][col]}
                  /\ ret[row][col] # 0 <=> layout[row][col] \in present

\* 15 May 1990: 3 is present only as the life path, 6 only as the birthday
\* number, 4 is absent
C8_Witness ==
  /\ op = "generateLoShuGrid" /\ args = <<15, 5, 1990>>
  /\ ret = << <<0, 9, 0>>, <<3, 5, 0>>, <<0, 1, 6>> >>

\* the number of letters of a name, of either case, whose Pythagorean value
\* (1 for A, J, S; 2 for B, K, T; ...; 9 for I, R) is v
PythagoreanCount(name, v) ==
  Cardinality({i \in 1..Len(name) :
                 \E k \in 1..26 : /\ name[i] \in {UpperCase[k], LowerCase[k]}
                                  /\ ((k - 1) % 9) + 1 = v})

\* C19: getHiddenPassionNumber(name) is a digit v in 1..9 whose count of
\* letters of the name is maximal, and the smallest of the digits with that
\* count.
C19_HiddenPassion ==
  op = "getHiddenPassionNumber" =>
    /\ ret \in 1..9
    /\ \A v \in 1..9 :
         /\ PythagoreanCount(args[1], v) <= PythagoreanCount(args[1], ret)
         /\ PythagoreanCount(args[1], v) = PythagoreanCount(args[1], ret)
              => ret <= v

\* a name whose letters have the values 9, 2 and 1 once each
C19_Witness ==
  /\ op = "getHiddenPassionNumber"
  /\ args[1] = <<"R", "K", "s">>
  /\ ret = 1

\* the single digit a positive number reduces to when no master number is
\* kept: its digital root
DigitalRoot(n) == 1 + ((n - 1) % 9)

\* C20: for every valid date calculateChallenges returns
\* [|m - d|, |d - y|, ||m - d| - |d - y||, |m - y|] for the day, month and
\* year reduced to single digits d, m, y without keeping master numbers;
\* each of the four values is in 0..8, and none is 11, 22 or 33.
C20_Challenges ==
  op = "calculateChallenges" =>
    LET d == DigitalRoot(args[1])
        m == DigitalRoot(args[2])
        y == DigitalRoot(args[3])
        diff(a, b) == IF a < b THEN b - a ELSE a - b
    IN  /\ ret = <<diff(m, d), diff(d, y), diff(diff(m, d), diff(d, y)),
                   diff(m, y)>>
        /\ \A i \in 1..4 : ret[i] \in 0..8 /\ ret[i] \notin MasterNumbers

\* a day and a month whose digit sums pass through the master number 11
C20_Witness ==
  /\ op = "calculateChallenges"
  /\ args = <<29, 11, 1988>>
  /\ ret = <<0, 6, 6, 6>>

----------------------------------------------------------------------------
(* Properties of generateKundli (SpecKundli)                                *)

NoTimeOfBirth == pc # "idle" /\ request.timeOfBirth = <<>>

\* C9: for a request without a time of birth generateKundli calls none of
\* computeNatalChart, computeVargas and computeVimshottariDasa; a request
\* that passes validateBirthData is rejected only when the database rejects
\* an insert; and the value it resolves with has hasVedicChart = false,
\* reading.confidence = 'medium' and empty natalChart, vargaCharts and
\* dashaData.
C9_NoTimeOfBirthSkipsEphemeris ==
  NoTimeOfBirth =>
    /\ calls = <<>>
    /\ pc \in {"catch", "rejected"} =>
         \/ ~validateBirthData(request.latitude, request.longitude,
                               request.dateOfBirth, request.timeOfBirth)
         \/ error = "database error"
    /\ pc = "resolved" =>
         /\ result.hasVedicChart = FALSE
         /\ result.reading.confidence = "medium"
         /\ result.natalChart = EmptyObject
         /\ result.vargaCharts = EmptyObject
         /\ result.dashaData = EmptyObject

\* a request without a time of birth has been answered
C9_Witness ==
  /\ NoTimeOfBirth /\ pc = "resolved"
  /\ calls = <<>> /\ result.hasVedicChart = FALSE
  /\ result.natalChart = EmptyObject

\* the date or the time string of the request is malformed: it fails the
\* pattern of validateBirthData or it is not a date the Date constructor
\* accepts
MalformedBirthStrings ==
  \/ ~MatchesDateRegex(request.dateOfBirth)
  \/ ~MatchesTimeRegex(request.timeOfBirth)
  \/ ParseBirthDateTime(request.dateOfBirth, request.timeOfBirth,
                        request.timezone) = InvalidDate

\* the request has a time of birth and no chart can be produced for it: its
\* strings are malformed, or one of the ephemeris functions has thrown
ChartUnavailable ==
  /\ Truthy(request.timeOfBirth)
  /\ \/ MalformedBirthStrings
     \/ (calls # <<>> /\ pc \notin {"computeVargas", "computeVimshottariDasa"}
           /\ ~hasVedicChart)

CoordinatesInRange ==
  request.latitude \in -90..90 /\ request.longitude \in -180..180

\* C10: when no chart can be produced for a request that has a time of birth
\* (coordinates in range, no database failure), generateKundli is not
\* rejected, and it resolves with hasVedicChart = false and confidence
\* 'medium'.
C10_ChartUnavailableResolves ==
  (pc # "idle" /\ ChartUnavailable /\ CoordinatesInRange
     /\ error # "database error") =>
    /\ pc \notin {"catch", "rejected"}
    /\ pc = "resolved" =>
         result.hasVedicChart = FALSE /\ result.reading.confidence = "medium"

----------------------------------------------------------------------------
(* Properties of the ephemeris functions (SpecEphemeris)                    *)

NatalChartComputed == op = "computeNatalChart"

\* C11: for every birth instant, before or after J2000.0, every planet of
\* the chart computeNatalChart returns has a sidereal longitude L with
\* 0 <= L < 360, a sign floor(L / 30) in 0..11 and a degree L mod 30 with
\* 0 <= degree < 30.
C11_SiderealLongitudeInRange ==
  NatalChartComputed =>
    \A p \in DOMAIN ret.planets :
      LET position == ret.planets[p]
      IN  /\ 0 <= position.longitude /\ position.longitude < Turn
          /\ position.sign = position.longitude \div (30 * Deg)
          /\ position.sign \in 0..11
          /\ position.degree = position.longitude % (30 * Deg)
          /\ 0 <= position.degree /\ position.degree < 30 * Deg

\* C12: in every chart computeNatalChart returns, ketu.longitude is
\* (rahu.longitude + 180) mod 360, ketu.sign is (rahu.sign + 6) mod 12, and
\* that sign is floor(ketu.longitude / 30).
C12_KetuOppositeRahu ==
  NatalChartComputed =>
    LET rahu == ret.planets.rahu
        ketu == ret.planets.ketu
    IN  /\ ketu.longitude = (rahu.longitude + 180 * Deg) % Turn
        /\ ketu.sign = (rahu.sign + 6) % 12
        /\ ketu.sign = ketu.longitude \div (30 * Deg)

\* a chart whose Rahu lies in the second half of the circle, so that Ketu
\* wraps around 360
C12_Witness ==
  /\ NatalChartComputed
  /\ ret.planets.rahu.longitude > 180 * Deg
  /\ ret.planets.ketu.longitude < 180 * Deg
  /\ ret.planets.ketu.sign = 5

\* floor((L mod 30) / (30 / d)), the part of its sign a longitude lies in
\* when the sign is cut into d equal parts
SubdivisionIndex(longitude, d) == ((longitude % (30 * Deg)) * d) \div (30 * Deg)

\* C13: for a planet at longitude L in [0, 360) with sign s = floor(L / 30)
\* and each d in {9, 10, 12}, computeVargas returns for Dd the sign
\* (s * d + floor((L mod 30) / (30 / d))) mod 12, and the subdivision index
\* that enters this sign is in 0..d-1.
C13_VargaSigns ==
  op = "computeVargas" =>
    LET position == args[1].planets.sun
        L == position.longitude
        s == L \div (30 * Deg)
        expected(d) == (s * d + SubdivisionIndex(L, d)) % 12
    IN  /\ position.sign = s
        /\ ret.D9.sun = expected(9)
        /\ ret.D10.sun = expected(10)
        /\ ret.D12.sun = expected(12)
        /\ (L % (30 * Deg)) \div 3333333 \in 0..8
        /\ (L % (30 * Deg)) \div (3 * Deg) \in 0..9
        /\ (L % (30 * Deg)) \div 2500000 \in 0..11

\* the 13 degree 20 minute segment of the zodiac a longitude lies in,
\* floor(L / (360 / 27)) = floor(3 L / 40), and the quarter of the segment
NakshatraSegment(longitude) == (3 * longitude) \div (40 * Deg)
NakshatraQuarter(longitude) == (((3 * longitude) % (40 * Deg)) \div (10 * Deg)) + 1

\* C14: for every Moon longitude L with 0 <= L < 360, getNakshatraPada
\* returns the name of the nakshatra at index floor(L / (360 / 27)), never
\* 'Unknown', and a pada in 1..4 that is the quarter of that segment in
\* which L lies.
C14_NakshatraPada ==
  op = "getNakshatraPada" =>
    /\ ret.nakshatra # "Unknown"
    /\ ret.nakshatra = NAKSHATRAS[NakshatraSegment(args[1]) + 1]
    /\ ret.pada \in 1..4
    /\ ret.pada = NakshatraQuarter(args[1])

\* C15: for every birth instant and geographic longitude computeNatalChart
\* returns an ascendant in 0..11 and twelve houses with
\* houses[i] = (ascendant + i) mod 12 for i = 0..11, so that houses[0] is the
\* ascendant and every sign 0..11 occurs exactly once.
C15_AscendantAndHouses ==
  NatalChartComputed =>
    /\ ret.ascendant \in 0..11
    /\ DOMAIN ret.houses = 1..12
    /\ \A i \in 1..12 : ret.houses[i] = (ret.ascendant + (i - 1)) % 12
    /\ ret.houses[1] = ret.ascendant
    /\ {ret.houses[i] : i \in 1..12} = 0..11

\* C16: Rahu's longitude is computed by one of the per-planet formulas of
\* calculatePlanetLongitude, a polynomial in the Julian centuries since
\* J2000.0, and not by the default branch that returns 0.
C16_RahuByFormula ==
  (op = "calculatePlanetLongitude" /\ args[1] = "rahu") =>
    /\ args[1] \in DOMAIN PlanetFormula
    /\ ret = AngleRem360(PlanetPolynomial(PlanetFormula[args[1]], args[2]))

\* the planets and the years of the Vimshottari sequence
VimshottariPlanets ==
  <<"Ketu", "Venus", "Sun", "Moon", "Mars", "Rahu", "Jupiter", "Saturn", "Mercury">>
VimshottariYears == <<7, 20, 6, 10, 7, 18, 16, 19, 17>>

\* C17: for every Moon longitude L in [0, 360) computeVimshottariDasa
\* returns the sequence Ketu 7, Venus 20, Sun 6, Moon 10, Mars 7, Rahu 18,
\* Jupiter 16, Saturn 19, Mercury 17 in this order, 120 years in all, and a
\* currentMaha.planet that is the entry at index floor(L / 13.333333) mod 9,
\* which always exists.
C17_VimshottariSequence ==
  op = "computeVimshottariDasa" =>
    /\ ret # Thrown
    /\ Len(ret.sequence) = 9
    /\ \A i \in 1..9 :
         /\ ret.sequence[i].planet = VimshottariPlanets[i]
         /\ ret.sequence[i].years = VimshottariYears[i]
    /\ SumSeq([i \in 1..9 |-> ret.sequence[i].years]) = 120
    /\ ret.currentMaha.planet
         = VimshottariPlanets[((args[1] \div 13333333) % 9) + 1]

\* a longitude in the last nakshatra, past the eighth entry of the sequence
C17_Witness ==
  /\ op = "computeVimshottariDasa"
  /\ args[1] \div 13333333 = 26
  /\ ret.currentMaha.planet = "Mercury"
  /\ ret.currentSub.planet = "Ketu"

----------------------------------------------------------------------------
(* Termination of reduceToSingleDigit                                       *)

\* C21: every call of reduceToSingleDigit with a non-negative integer, in
\* either mode, reaches its return statement, and every pass of the loop
\* body over a value greater than 9 leaves a strictly smaller value.
C21_ReduceTerminates ==
  /\ [][(loopPc = "while" /\ loopNum > 9) => loopNum' < loopNum]_vars
  /\ (op = "reduceToSingleDigit") ~> (loopPc = "returned")

\* 1999 -> 28 -> 10 -> 1: three passes of the loop before the return
C21_Witness ==
  /\ loopPc = "returned" /\ args = <<1999, TRUE>> /\ ret = 1

----------------------------------------------------------------------------
(* Rate limit of POST /api/vedic/compute-chart                              *)

\* the responses to a client's requests that chartLimiter let through
PassedChartLimiter(ip, from, to) ==
  {i \in 1..Len(chartResponses) :
     /\ chartResponses[i].ip = ip
     /\ chartResponses[i].time \in from..to
     /\ chartResponses[i].status \notin {401, 429}}

\* C22: in any one-hour window at most 3 compute-chart requests of one
\* client get past chartLimiter, and every further request of that client in
\* the window is answered with 429 and does not invoke generateKundli.
C22_ChartLimit ==
  \A ip \in ClientAddresses :
    /\ \A t \in 0..MaxTime :
         Cardinality(PassedChartLimiter(ip, t, t + ChartWindow - 1)) <= ChartMax
    /\ \A i \in 1..Len(chartResponses) :
         (/\ chartResponses[i].ip = ip
          /\ Cardinality({j \in PassedChartLimiter(ip,
                                 chartResponses[i].time - ChartWindow + 1,
                                 chartResponses[i].time) : j < i}) >= ChartMax)
         => /\ chartResponses[i].status = 429
            /\ ~chartResponses[i].generateKundli

----------------------------------------------------------------------------
(* Category labels and category scores                                      *)

\* the band a category label names
Band(label) ==
  IF label = "Excellent Match" THEN "Excellent"
  ELSE IF label = "Good Match" THEN "Good"
  ELSE IF label = "Average Match" THEN "Average"
  ELSE "Challenging"

\* C23: for every score in 0..100 the label getCategoryFromScore gives in
\* getCompatibilityHistory names the band of the thresholds 80, 65 and 50,
\* which is the band calculateAdvancedCompatibility assigns to that score.
C23_SameCategoryBands ==
  op = "getCategoryFromScore" =>
    /\ Band(ret) = Band(Categorize(args[1]))
    /\ Band(ret) = (IF args[1] >= 80 THEN "Excellent"
                    ELSE IF args[1] >= 65 THEN "Good"
                    ELSE IF args[1] >= 50 THEN "Average"
                    ELSE "Challenging")

\* C29: each of the eight category scores of generateCategoryScores is an
\* integer in 0..100 for every pair of calculateNumerology profiles.
C29_CategoryScoresInRange ==
  op = "generateCategoryScores" =>
    \A category \in DOMAIN ret : ret[category] \in 0..100

----------------------------------------------------------------------------
(* generateKundli after a failure of the ephemeris sequence                 *)

\* C24: whenever generateKundli returns with hasVedicChart = false, the
\* returned natalChart, vargaCharts and dashaData are empty objects and yogas
\* is the empty list, whichever ephemeris step failed.
C24_NoChartWithoutVedicChart ==
  (pc = "resolved" /\ ~result.hasVedicChart) =>
    /\ result.natalChart = EmptyObject
    /\ result.vargaCharts = EmptyObject
    /\ result.dashaData = EmptyObject
    /\ result.yogas = <<>>

----------------------------------------------------------------------------
(* Rate limit of generateKundliInsight                                      *)

\* C25: whatever the interleaving of the generateKundliInsight calls of one
\* user, at most RATE_LIMIT requests for that user go to the Groq API within
\* one RATE_WINDOW.
C25_GroqRequestsLimited ==
  \A userId \in InsightUserIds : \A t \in 0..MaxTime :
    Cardinality({i \in 1..Len(groqRequests) :
                   /\ groqRequests[i].userId = userId
                   /\ groqRequests[i].time \in t..(t + RATE_WINDOW - 1)})
      <= RATE_LIMIT

----------------------------------------------------------------------------
(* Chat sessions                                                            *)

\* the calls of the owner on an existing session
CallsOnSession(id) ==
  {i \in 1..Len(chatCalls) : chatCalls[i].session = id /\ chatCalls[i].sessionId = id}

\* C26: once every sendChatMessage call the owner made on an existing
\* session has completed, the stored messages of the session hold the user
\* message and the assistant reply of each of these calls.
C26_NoChatMessageLost ==
  \A id \in SessionIds :
    (/\ chatSessions[id] # null
     /\ \A i \in CallsOnSession(id) : chatCalls[i].pc = "resolved")
    => \A i \in CallsOnSession(id) :
         \E j, k \in 1..Len(chatSessions[id].messages) :
           /\ chatSessions[id].messages[j] = UserMessage(i)
           /\ chatSessions[id].messages[k] = AssistantMessage(i)

\* C27: deleteChatSession(userId, sessionId) removes a session only if it
\* is owned by userId, and the messages of a session come from calls of its
\* owner only.
C27_OnlyOwnerChangesSession ==
  /\ op = "deleteChatSession" => \A owner \in ret : owner = args[1]
  /\ \A id \in SessionIds :
       chatSessions[id] # null =>
         \A j \in 1..Len(chatSessions[id].messages) :
           chatCalls[chatSessions[id].messages[j].call].userId
             = chatSessions[id].userId

----------------------------------------------------------------------------
(* getUserKundli                                                            *)

\* C28: getUserKundli returns the chart of the user with the greatest
\* generatedAt, and that chart is the one whose access tracking was updated.
C28_LatestChartReturned ==
  (op = "getUserKundli" /\ ret # null) =>
    /\ \A id \in ChartsOf(args[1]) :
         kundliCharts[id].generatedAt <= kundliCharts[ret.chartId].generatedAt
    /\ kundliCharts[ret.chartId].accessCount > 0

----------------------------------------------------------------------------
(* The rateLimit middleware                                                 *)

\* the requests of the same key handled before request i
EarlierOfKey(i) ==
  {j \in 1..(i - 1) : rateLimited[j].key = rateLimited[i].key}

\* request i is the first of its key or arrives after the resetTime of the
\* window the request before it was in
StartsWindow(i) ==
  \/ EarlierOfKey(i) = {}
  \/ LET last == CHOOSE j \in EarlierOfKey(i) : \A k \in EarlierOfKey(i) : k <= j
     IN  rateLimited[i].time > rateLimited[last].resetTime

\* the requests of the window that request i starts which were admitted
AdmittedInWindow(i) ==
  {j \in i..Len(rateLimited) :
     /\ rateLimited[j].key = rateLimited[i].key
     /\ rateLimited[j].time <= rateLimited[i].time + rateLimitArgs[2]
     /\ rateLimited[j].status = 0}

====
